---- MODULE Spec2Model ----
(***************************************************************************)
(* A model of the CineCritique backend: the disk-backed result cache       *)
(* (services/cache_manager.py), the cost ledger (services/cost_tracker.py),*)
(* the provider router (services/ai_router.py) and the /api/analyze        *)
(* request handler that orchestrates them (main.py).                       *)
(*                                                                         *)
(* Costs are integers in units of 6.25e-9 dollars, the largest unit in     *)
(* which every per-token price of the price table is a whole number, so    *)
(* cost arithmetic is exact.  Time is in seconds.                          *)
(***************************************************************************)
EXTENDS Integers, Sequences, FiniteSets, TLC

VARIABLES
    \* ---- CacheManager (cache_manager.py)
    cache,          \* the diskcache store: key -> entry
    stats,          \* the in-memory hit / miss / set counters
    now,            \* the wall clock, in seconds
    \* ---- observation of the cache (history, not program state)
    ticks,          \* how many times the clock has advanced
    getCalls,       \* number of calls of CacheManager.get in this process
    setCalls,       \* number of calls of CacheManager.set in this process
    lastOp,         \* the last direct CacheManager call and what it returned
    setLog,         \* per key: the last set that succeeded and is not yet
                    \* deleted or cleared
    \* ---- CostTracker (cost_tracker.py)
    ledger,         \* total_cost, breakdown, api_calls, cache_hits in memory
    costsFile,      \* the persisted costs.json
    \* ---- observation of the ledger (history, not program state)
    ledgerOp,       \* the last direct CostTracker call, what it returned and
                    \* the total_cost it found
    \* ---- AIRouter (ai_router.py)
    gemini_available,     \* resolved at startup
    local_llm_available,  \* resolved at startup
    \* ---- /api/analyze requests in flight (main.py)
    req,            \* per request slot: where the request is and what it
                    \* has done
    arrivals,       \* number of analyze requests received so far
    \* ---- /api/chat and /api/generate-image (main.py)
    svc,            \* the last chat or image request and how it was served
    \* ---- VideoProcessor (video_processor.py)
    vid,            \* the last container handed to the processor and what
                    \* the call returned
    pool,           \* the ThreadPoolExecutor: tasks submitted, running, done
    \* ---- CostTracker with its costs as binary64 floats (cost_tracker.py)
    tracker         \* total_cost, breakdown, api_calls, cache_hits in memory
                    \* and in costs.json, and the operations called so far

clockVars == <<now, ticks>>

storeVars == <<cache, stats, getCalls, setCalls, setLog>>

cacheVars == <<cache, stats, now, ticks, getCalls, setCalls, setLog>>

ledgerVars == <<ledger, costsFile>>

\* What the last direct call of a component returned
obsVars == <<lastOp, ledgerOp>>

routerVars == <<gemini_available, local_llm_available>>

reqVars == <<req, arrivals>>

\* The chat and image endpoints, the video processor and the ledger in
\* floating point
auxVars == <<svc, vid, pool, tracker>>

vars == <<cache, stats, now, ticks, getCalls, setCalls, lastOp, setLog,
          ledger, costsFile, ledgerOp, gemini_available, local_llm_available,
          req, arrivals, svc, vid, pool, tracker>>

-----------------------------------------------------------------------------
(* Bounds of the model *)

MaxTicks == 1          \* clock advances per behaviour
MaxCacheCalls == 3     \* CacheManager calls per process (component level)
MaxLedgerCalls == 3    \* CostTracker calls per behaviour (component level)
MaxRequests == 2       \* analyze requests received per behaviour
MaxApiCalls == 3       \* chat, image and reset requests received per behaviour
MaxFrames == 3         \* frames of a container
MaxTasks == 6          \* extractions submitted to the worker pool
MaxTrackerCalls == 3   \* calls of the ledger in floating point per behaviour
MaxReportCalls == 2    \* calls that change the ledger before a report

-----------------------------------------------------------------------------
(* Python values *)

\* A value is a record of the same shape whatever it stands for, so that any
\* two values can be compared: the key set of the dict, the way it was built
\* and its text content.
None == [keys |-> {}, form |-> "None", text |-> <<>>]

\* bool(value) for None and for dicts: None and the empty dict are falsy.
Truthy(v) == v.keys # {}

\* Optional[int] = None
NoTTL == [given |-> FALSE, secs |-> 0]

SomeTTL(n) == [given |-> TRUE, secs |-> n]

\* `if ttl:` -- None and 0 are both falsy
TTLTruthy(ttl) == ttl.given /\ ttl.secs # 0

\* The analysis dict json.loads gives for the text "{}", for a complete
\* analysis object, and for an object with one other member.
EmptyDict == [keys |-> {}, form |-> "json", text |-> <<>>]

OtherDict == [keys |-> {"a"}, form |-> "json", text |-> <<"a">>]

FullAnalysis == [keys |-> {"summary", "timeline"}, form |-> "json", text |-> <<"K">>]

\* ttl=86400 * 7 in analyze_video
AnalysisTTL == 604800

-----------------------------------------------------------------------------
(* Media contents and cache keys *)

Contents == {"vidA", "vidB"}

\* hashlib.sha256(content).hexdigest(): a digest that differs for different
\* contents (collisions are not modelled).
Sha256Hex(content) == IF content = "vidA" THEN "a3f1" ELSE "9c0e"

\* cache_key = f"analysis:{video_hash}"
CacheKey(content) == <<"analysis:", Sha256Hex(content)>>

Keys == {CacheKey(c) : c \in Contents}

-----------------------------------------------------------------------------
(* The diskcache store as CacheManager uses it *)

NoEntry == [present |-> FALSE, value |-> None, expires |-> FALSE, expire_time |-> 0]

\* An entry is live when it has no expiry or its expiry lies in the future.
Live(e) == e.present /\ (~e.expires \/ e.expire_time > now)

\* self.cache.get(key): the value of a live entry, else the default None
DiskGet(key) == IF Live(cache[key]) THEN cache[key].value ELSE None

\* self.cache.set(key, value, expire=ttl) / self.cache.set(key, value)
DiskSet(key, value, withExpire, seconds) ==
    [cache EXCEPT ![key] = [present |-> TRUE, value |-> value,
                            expires |-> withExpire,
                            expire_time |-> IF withExpire THEN now + seconds ELSE 0]]

\* self.cache.delete(key): removes a live entry and says whether it did
DiskDelete(key) == IF Live(cache[key]) THEN [cache EXCEPT ![key] = NoEntry] ELSE cache

\* self.cache.clear()
DiskClear == [k \in Keys |-> NoEntry]

\* Outcome of one access to the backing store: it works or it raises
\* (sqlite error, diskcache.Timeout).
StoreOutcomes == {"ok", "fail"}

-----------------------------------------------------------------------------
(* CacheManager *)

\* Faulty variant of CacheManager.get, without its except branch: a store
\* failure reaches the caller.  C10 tells it from GetReturn.
GetReturnRaising(key, io) ==
    IF io = "fail" THEN [raised |-> TRUE, value |-> None]
    ELSE [raised |-> FALSE, value |-> DiskGet(key)]

\* CacheManager.get: what the caller gets back.  raised is whether the call
\* raised to the caller instead of returning.
GetReturn(key, io) ==
    IF io = "fail" THEN [raised |-> FALSE, value |-> None]
    ELSE [raised |-> FALSE, value |-> DiskGet(key)]

\* CacheManager.get: the counters afterwards
StatsAfterGet(key, io) ==
    IF io = "fail" THEN stats
    ELSE IF DiskGet(key) # None THEN [stats EXCEPT !.hits = @ + 1]
    ELSE [stats EXCEPT !.misses = @ + 1]

\* Faulty variant of CacheManager.set that adds a second entry when the key
\* is already stored instead of replacing the first.  C14 tells it from
\* CacheAfterSet.
CacheAfterSetAppending(key, value, ttl, io) ==
    LET slot == IF cache[key].present
                THEN CHOOSE j \in Keys : j # key
                ELSE key
    IN IF io = "fail" THEN cache
       ELSE IF TTLTruthy(ttl) THEN DiskSet(slot, value, TRUE, ttl.secs)
       ELSE DiskSet(slot, value, FALSE, 0)

\* CacheManager.set: the store afterwards
CacheAfterSet(key, value, ttl, io) ==
    IF io = "fail" THEN cache
    ELSE IF TTLTruthy(ttl) THEN DiskSet(key, value, TRUE, ttl.secs)
    ELSE DiskSet(key, value, FALSE, 0)

\* CacheManager.set: what the caller gets back
SetReturn(io) == [raised |-> FALSE, ok |-> (io = "ok")]

\* CacheManager.set: the counters afterwards
StatsAfterSet(io) == IF io = "fail" THEN stats ELSE [stats EXCEPT !.sets = @ + 1]

NoSet == [set |-> FALSE, at |-> 0, ttl |-> NoTTL, value |-> None]

\* CacheManager.delete: what the caller gets back
DeleteReturn(key, io) == io = "ok" /\ Live(cache[key])

\* The whole effect of one CacheManager.get call on the cache
DoCacheGet(key, io) ==
    /\ stats' = StatsAfterGet(key, io)
    /\ getCalls' = getCalls + 1
    /\ UNCHANGED <<cache, setCalls, setLog>>

\* The whole effect of one CacheManager.set call
DoCacheSet(key, value, ttl, io) ==
    /\ cache' = CacheAfterSet(key, value, ttl, io)
    /\ stats' = StatsAfterSet(io)
    /\ setCalls' = setCalls + 1
    /\ setLog' = IF io = "ok"
                 THEN [setLog EXCEPT ![key] = [set |-> TRUE, at |-> now,
                                               ttl |-> ttl, value |-> value]]
                 ELSE setLog
    /\ UNCHANGED getCalls

\* The whole effect of one CacheManager.delete call
DoCacheDelete(key, io) ==
    /\ cache' = IF io = "fail" THEN cache ELSE DiskDelete(key)
    /\ setLog' = [setLog EXCEPT ![key] = NoSet]
    /\ UNCHANGED <<stats, getCalls, setCalls>>

\* The whole effect of one CacheManager.clear_all call
DoCacheClear(io) ==
    /\ cache' = IF io = "fail" THEN cache ELSE DiskClear
    /\ setLog' = [k \in Keys |-> NoSet]
    /\ UNCHANGED <<stats, getCalls, setCalls>>

-----------------------------------------------------------------------------
(* CostTracker *)

\* COST_PER_1K_TOKENS.get(model, default), in units of 6.25e-6 dollars:
\* 0.125, 0.00001875, 0.0003, 0.04, 0.02 and 0.0 dollars.
CostPer1K(model, default) ==
    CASE model = "gemini-3-pro-preview" -> 20000
      [] model = "gemini-1.5-flash" -> 3
      [] model = "gemini-2.5-flash-image" -> 48
      [] model = "imagen-4.0-generate-001" -> 6400
      [] model = "imagen-3.0-generate-001" -> 3200
      [] model = "local_llm" -> 0
      [] OTHER -> default

\* Faulty variant of the price of an analysis that looks every provider up
\* in the price table.  C18 tells it from AnalysisCost.
AnalysisCostFromTable(provider, model, tokens) == tokens * CostPer1K(model, 8000)

\* record_analysis: cost = (tokens / 1000) * cost_per_1k, default price 0.05
AnalysisCost(provider, model, tokens) ==
    IF provider = "local_llm" THEN 0 ELSE tokens * CostPer1K(model, 8000)

\* record_chat: the chat model is always gemini-1.5-flash
ChatCost(provider, tokens) ==
    IF provider = "local_llm" THEN 0
    ELSE tokens * CostPer1K("gemini-1.5-flash", 3)

\* record_image_generation: a flat price per image, default 0.02
ImageCost(model) == 1000 * CostPer1K(model, 3200)

\* self.breakdown.get(key, 0.0)
BreakdownGet(b, key) == IF key \in DOMAIN b THEN b[key] ELSE 0

\* Faulty variant of the record operations, subtracting the cost.  C6 tells
\* it from LedgerAfterRecord.
LedgerAfterRefund(key, cost) ==
    [ledger EXCEPT !.total_cost = @ - cost,
                   !.api_calls = @ + 1,
                   !.breakdown = [k \in (DOMAIN @) \cup {key} |->
                                     IF k = key THEN BreakdownGet(@, key) + cost
                                     ELSE @[k]]]

\* self.total_cost += cost; self.api_calls += 1;
\* self.breakdown[key] = self.breakdown.get(key, 0.0) + cost
LedgerAfterRecord(key, cost) ==
    [ledger EXCEPT !.total_cost = @ + cost,
                   !.api_calls = @ + 1,
                   !.breakdown = [k \in (DOMAIN @) \cup {key} |->
                                     IF k = key THEN BreakdownGet(@, key) + cost
                                     ELSE @[k]]]

\* Faulty variant of record_cache_hit that counts the hit as an API call
\* too.  C20 tells it from LedgerAfterCacheHit.
LedgerCacheHitAsCall == [ledger EXCEPT !.cache_hits = @ + 1, !.api_calls = @ + 1]

\* record_cache_hit: self.cache_hits += 1
LedgerAfterCacheHit == [ledger EXCEPT !.cache_hits = @ + 1]

\* reset
LedgerAfterReset ==
    [total_cost |-> 0, breakdown |-> <<>>, api_calls |-> 0, cache_hits |-> 0]

\* Outcome of one _save: it works; open(self.persist_path, 'w') raises and
\* the file is as before ("fail"); or open has truncated the file and
\* json.dump raises while writing ("torn"), which leaves a file that is not
\* a JSON document.
SaveOutcomes == {"ok", "fail", "torn"}

\* No costs.json.  data is what json.load gives for a readable file.
NoCostsFile == [exists |-> FALSE, readable |-> FALSE, data |-> LedgerAfterReset]

\* A costs.json cut short by a write that failed
TornCostsFile == [exists |-> TRUE, readable |-> FALSE, data |-> LedgerAfterReset]

\* _save: the file afterwards.  The call raises when open or the write
\* fails; a failed open leaves the file as it was, a failed write leaves
\* it truncated.
FileAfterSave(state, io) ==
    IF io = "fail" THEN costsFile
    ELSE IF io = "torn" THEN TornCostsFile
    ELSE [exists |-> TRUE, readable |-> TRUE, data |-> state]

\* The whole effect of one mutating CostTracker call: the memory state is
\* changed first, then _save persists it or raises.
DoLedger(state, io) ==
    /\ ledger' = state
    /\ costsFile' = FileAfterSave(state, io)

\* _save raised, and so did the call
SaveRaises(io) == io \in {"fail", "torn"}

\* CostTracker.__init__ raises: json.load of a file that is not a JSON
\* document raises JSONDecodeError
LoadRaises == costsFile.exists /\ ~costsFile.readable

\* CostTracker.__init__: the state a new process starts with, read from
\* costs.json when the file exists (data.get(field, default)), else zeros
LedgerLoaded ==
    IF costsFile.exists
    THEN [total_cost |-> costsFile.data.total_cost,
          breakdown |-> costsFile.data.breakdown,
          api_calls |-> costsFile.data.api_calls,
          cache_hits |-> costsFile.data.cache_hits]
    ELSE LedgerAfterReset

DoRecordAnalysis(provider, model, tokens, io) ==
    DoLedger(LedgerAfterRecord("analysis_" \o provider,
                               AnalysisCost(provider, model, tokens)), io)

DoRecordChat(provider, tokens, io) ==
    DoLedger(LedgerAfterRecord("chat_" \o provider, ChatCost(provider, tokens)), io)

DoRecordImageGeneration(provider, model, io) ==
    DoLedger(LedgerAfterRecord("image_generation", ImageCost(model)), io)

DoRecordCacheHit(io) == DoLedger(LedgerAfterCacheHit, io)

\* Faulty variant of reset that never calls _save.  C7 tells it from DoReset.
DoResetWithoutSave(io) ==
    /\ ledger' = LedgerAfterReset
    /\ costsFile' = costsFile

DoReset(io) == DoLedger(LedgerAfterReset, io)

-----------------------------------------------------------------------------
(* AIRouter: response parsing *)

\* A response text is a sequence over "{", "}", " " (one whitespace
\* character: space, tab, newline), "x" (the letter x, which is no JSON
\* token), "K", which stands for the members of a complete analysis object
\* ("summary": {...}, "timeline": [...]), and "a", which stands for the
\* member "a": 1.
ResponseTexts ==
    { <<>>, <<"x">>, <<"{", "}">>, <<"x", "{", "K", "}", "x">>, <<"{", "x", "}">>,
      <<"{", " ", "}">>, <<"{", "a", "}">> }

Positions(text, ch) == {i \in 1..Len(text) : text[i] = ch}

SetMin(S) == CHOOSE m \in S : \A n \in S : m <= n

SetMax(S) == CHOOSE m \in S : \A n \in S : m >= n

\* re.search(r'\{.*\}', text, re.DOTALL): the leftmost "{" up to the last
\* "}" after it
RegexSearch(text) ==
    LET opens == Positions(text, "{")
        closes == Positions(text, "}")
    IN IF \E i \in opens, j \in closes : i < j
       THEN [found |-> TRUE, match |-> SubSeq(text, SetMin(opens), SetMax(closes))]
       ELSE [found |-> FALSE, match |-> <<>>]

NotWhitespace(ch) == ch # " "

\* json.loads of a matched "{...}": whitespace between the tokens is
\* skipped; an object with no member, with the members of an analysis or
\* with the member "a": 1 gives its dict, anything else raises
\* JSONDecodeError
JsonLoads(match) ==
    LET members == SelectSeq(SubSeq(match, 2, Len(match) - 1), NotWhitespace)
    IN IF members = <<>> THEN [raised |-> FALSE, value |-> EmptyDict]
       ELSE IF members = <<"K">> THEN [raised |-> FALSE, value |-> FullAnalysis]
       ELSE IF members = <<"a">> THEN [raised |-> FALSE, value |-> OtherDict]
       ELSE [raised |-> TRUE, value |-> None]

\* text[:n]
Take(text, n) == SubSeq(text, 1, IF Len(text) < n THEN Len(text) ELSE n)

\* text[:200]
FallbackChars == 200

\* _parse_gemini_response
ParseGeminiResponse(text) ==
    IF RegexSearch(text).found THEN JsonLoads(RegexSearch(text).match)
    ELSE [raised |-> FALSE,
          value |-> [keys |-> {"summary", "timeline"}, form |-> "gemini_fallback",
                     text |-> Take(text, FallbackChars)]]

\* _parse_local_response
ParseLocalResponse(text) ==
    IF RegexSearch(text).found THEN JsonLoads(RegexSearch(text).match)
    ELSE [raised |-> FALSE,
          value |-> [keys |-> {"summary", "timeline"}, form |-> "local_fallback",
                     text |-> IF text # <<>> THEN Take(text, FallbackChars)
                              ELSE <<"Analysis completed">>]]

-----------------------------------------------------------------------------
(* AIRouter: provider selection *)

\* Faulty variant of the routing test that ignores force_local.  C2 tells
\* it from Route.
RouteIgnoringForceLocal(force_local) ==
    IF ~gemini_available
    THEN IF local_llm_available THEN "local_llm" ELSE "none"
    ELSE "gemini"

\* Faulty variant that goes to the cloud when the local model asked for is
\* missing.  C3 tells it from Route.
RouteCloudWhenLocalMissing(force_local) ==
    IF (force_local \/ ~gemini_available) /\ local_llm_available THEN "local_llm"
    ELSE IF gemini_available THEN "gemini"
    ELSE "none"

\* Faulty variant that prefers the local model whenever it is loaded.  C4
\* tells it from Route.
RouteLocalFirst(force_local) ==
    IF local_llm_available THEN "local_llm"
    ELSE IF force_local \/ ~gemini_available THEN "none"
    ELSE "gemini"

\* analyze_video: which provider is tried first, or "none" when the call
\* raises "No AI provider available"
Route(force_local) ==
    IF force_local \/ ~gemini_available
    THEN IF local_llm_available THEN "local_llm" ELSE "none"
    ELSE "gemini"

\* Faulty variant of the except branch that always re-raises.  C5 tells it
\* from FallbackTarget.
FallbackNever == "raise"

\* _analyze_with_gemini, except branch: fall back to the local model when it
\* is loaded, else re-raise
FallbackTarget == IF local_llm_available THEN "local_llm" ELSE "raise"

\* usage_metadata.total_token_count / usage.total_tokens of a response
TokenCounts == {0, 1000}

\* The token count of a provider response in the application runs: 0 when
\* the Gemini response has no usage_metadata or reports none
ResponseTokens == {0, 1000}

NoResult == [status |-> "none", provider |-> "none", model |-> "none",
             tokens |-> 0, analysis |-> None, error |-> "none"]

\* The dict _analyze_with_gemini returns
GeminiResult(analysis, tokens) ==
    [status |-> "ok", provider |-> "gemini", model |-> "gemini-1.5-flash",
     tokens |-> tokens, analysis |-> analysis, error |-> "none"]

\* The dict _analyze_with_local_llm returns
LocalResult(analysis, tokens) ==
    [status |-> "ok", provider |-> "local_llm", model |-> "llama-2-7b",
     tokens |-> tokens, analysis |-> analysis, error |-> "none"]

RaisedResult(error) == [NoResult EXCEPT !.status = "raised", !.error = error]

\* The parts of the FeatureSummary that _create_analysis_prompt reads
AnalysisPromptInputs ==
    {"metadata.duration", "metadata.fps", "metadata.width", "metadata.height",
     "audio.tempo", "scenes.count"}

\* The parts of the FeatureSummary that _create_local_analysis_prompt reads
LocalPromptInputs ==
    {"metadata.duration", "metadata.width", "metadata.height", "metadata.fps",
     "audio.tempo", "audio.avg_energy", "frames.count", "scenes.count",
     "frames.brightness"}

\* The raw media in the forms the request holds it: the uploaded bytes, the
\* temporary file they were written to, and the provider-side file
RawMedia == {"content", "video_path", "video_file"}

\* genai.upload_file(path=video_path)
UploadInputs == {"video_path"}

\* model.generate_content([video_file, prompt])
GenerateInputs == {"video_file"} \cup AnalysisPromptInputs

\* Faulty variant of the local call that is also handed the temporary file.
\* C21 tells it from LocalModelInputs.
LocalModelInputsWithVideo == LocalPromptInputs \cup {"video_path"}

\* create_chat_completion(messages=[system, {"role": "user", "content":
\* prompt}]) with prompt = _create_local_analysis_prompt(features)
LocalModelInputs == LocalPromptInputs

-----------------------------------------------------------------------------
(* main.py: one /api/analyze request *)

\* Request slots: the handler instances that can be in flight at once.  A
\* new request takes a slot over once the previous one in it has been
\* answered.
Reqs == {1, 2}

\* The slot of a client that sends its analyze requests one after another
SeqReqs == {1}

NoResponse == [status |-> 0, cached |-> FALSE, analysis |-> None,
               provider |-> "none", cost |-> 0, detail |-> "none"]

\* What of the request has been handed to each provider so far
NothingGiven == [gemini |-> {}, local_llm |-> {}]

\* A slot no request has used yet.  calls lists the provider calls the
\* request has made, in order; cached says the cache-hit branch was taken;
\* extracted says feature extraction was submitted; prior says that when the
\* cache was read, an earlier analysis of the same bytes had been stored less
\* than AnalysisTTL ago and not cleared since, and the store could be read;
\* fileState is the provider-side state of the uploaded file as last seen;
\* given lists, per provider, the data of the request handed to it.
IdleReq ==
    [pc |-> "idle", content |-> "none", use_cache |-> FALSE, force_local |-> FALSE,
     calls |-> <<>>, cached |-> FALSE, extracted |-> FALSE,
     prior |-> FALSE, getIo |-> "none", setIo |-> "none", cloudFailed |-> FALSE,
     fileState |-> "none", given |-> NothingGiven,
     router |-> NoResult, response |-> NoResponse]

SetReq(r, rq) == req' = [req EXCEPT ![r] = rq]

\* except Exception as e: raise HTTPException(status_code=500, detail=str(e))
Http500(rq, detail) ==
    [rq EXCEPT !.pc = "failed",
               !.response = [NoResponse EXCEPT !.status = 500, !.detail = detail]]

\* The JSONResponse of the cache-hit branch
HitResponse(rq, value) ==
    [rq EXCEPT !.pc = "done",
               !.response = [NoResponse EXCEPT !.status = 200, !.cached = TRUE,
                                               !.analysis = value]]

\* The JSONResponse after a provider call
MissResponse(rq, result, cost) ==
    [rq EXCEPT !.pc = "done",
               !.response = [status |-> 200, cached |-> FALSE,
                             analysis |-> result.analysis,
                             provider |-> result.provider, cost |-> cost,
                             detail |-> "none"]]

\* Faulty variant of the handler that records the cost of a cloud analysis
\* before the router has answered.  C30 tells it from RouterRaise.
RouterRaiseAfterRecording(r, rq, error) ==
    /\ SetReq(r, Http500([rq EXCEPT !.router = RaisedResult(error)], error))
    /\ DoRecordAnalysis("gemini", "gemini-1.5-flash", 1000, "ok")
    /\ UNCHANGED storeVars

\* ai_router.analyze_video raised: the handler answers 500
RouterRaise(r, rq, error) ==
    /\ SetReq(r, Http500([rq EXCEPT !.router = RaisedResult(error)], error))
    /\ UNCHANGED <<storeVars, ledgerVars>>

\* _analyze_with_local_llm up to the await: the prompt is built and
\* create_chat_completion is handed to the executor
StartLocal(r, rq) ==
    /\ SetReq(r, [rq EXCEPT !.pc = "local_llm", !.calls = Append(@, "local_llm"),
                             !.given.local_llm = LocalModelInputs])
    /\ UNCHANGED <<storeVars, ledgerVars>>

\* _analyze_with_gemini, except branch
CloudFail(r, rq, cause) ==
    IF FallbackTarget = "local_llm"
    THEN StartLocal(r, [rq EXCEPT !.cloudFailed = TRUE])
    ELSE RouterRaise(r, [rq EXCEPT !.cloudFailed = TRUE], cause)

\* analyze_video in main.py after ai_router.analyze_video has returned:
\* record the cost, store the analysis for 7 days, answer
Finish(r, rq, result) ==
    LET routed == [rq EXCEPT !.router = result]
        cost == AnalysisCost(result.provider, result.model, result.tokens)
    IN \E saveIo \in SaveOutcomes :
        /\ DoRecordAnalysis(result.provider, result.model, result.tokens, saveIo)
        /\ IF SaveRaises(saveIo)
           THEN /\ SetReq(r, Http500(routed, "ledger save failed"))
                /\ UNCHANGED storeVars
           ELSE \E setIo \in StoreOutcomes :
                /\ DoCacheSet(CacheKey(rq.content), result.analysis,
                              SomeTTL(AnalysisTTL), setIo)
                /\ SetReq(r, IF SetReturn(setIo).raised
                             THEN Http500([routed EXCEPT !.setIo = setIo],
                                          "cache set failed")
                             ELSE MissResponse([routed EXCEPT !.setIo = setIo],
                                               result, cost))

\* Faulty variant of _analyze_with_gemini that does not test for the FAILED
\* state.  C12 tells it from GeminiProceed.
GeminiProceedIgnoringFailed(r, rq, state) ==
    LET called == [rq EXCEPT !.calls = Append(@, "generate"),
                             !.given.gemini = @ \cup GenerateInputs] IN
    \/ CloudFail(r, called, "generate_content failed")
    \/ \E text \in ResponseTexts :
           IF ParseGeminiResponse(text).raised
           THEN CloudFail(r, called, "response is not valid JSON")
           ELSE \E tokens \in ResponseTokens :
                   Finish(r, called,
                          GeminiResult(ParseGeminiResponse(text).value, tokens))

\* _analyze_with_gemini once the uploaded file has left PROCESSING
GeminiProceed(r, rq, state) ==
    IF state = "FAILED"
    THEN CloudFail(r, rq, "Gemini video processing failed")
    ELSE LET called == [rq EXCEPT !.calls = Append(@, "generate"),
                                  !.given.gemini = @ \cup GenerateInputs] IN
         \/ CloudFail(r, called, "generate_content failed")
         \/ \E text \in ResponseTexts :
                IF ParseGeminiResponse(text).raised
                THEN CloudFail(r, called, "response is not valid JSON")
                ELSE \E tokens \in ResponseTokens :
                        Finish(r, called,
                               GeminiResult(ParseGeminiResponse(text).value, tokens))

\* AIRouter.analyze_video up to its first suspension
RouterAnalyzeVideo(r, rq) ==
    IF Route(rq.force_local) = "local_llm" THEN StartLocal(r, rq)
    ELSE IF Route(rq.force_local) = "none"
    THEN RouterRaise(r, rq, "No AI provider available")
    ELSE LET called == [rq EXCEPT !.calls = Append(@, "upload"),
                                  !.given.gemini = UploadInputs] IN
         \/ CloudFail(r, called, "upload_file failed")
         \/ /\ SetReq(r, [called EXCEPT !.pc = "polling",
                                         !.fileState = "PROCESSING"])
            /\ UNCHANGED <<storeVars, ledgerVars>>
         \/ \E state \in {"ACTIVE", "FAILED"} :
                GeminiProceed(r, [called EXCEPT !.fileState = state], state)

\* The handler from the arrival of the request to its first suspension:
\* read the bytes and write them to the temporary file (a path that cannot
\* be written answers 500 before the cache is consulted), derive the key,
\* consult the cache; on a truthy cached value record the hit and answer,
\* otherwise submit feature extraction.
AnalyzeStart(r) ==
    \E content \in Contents, use_cache \in BOOLEAN, force_local \in BOOLEAN,
       writeIo \in StoreOutcomes :
        LET key == CacheKey(content)
            rq0 == [IdleReq EXCEPT !.content = content, !.use_cache = use_cache,
                                   !.force_local = force_local]
        IN /\ req[r].pc \in {"idle", "done", "failed"}
           /\ arrivals < MaxRequests
           /\ arrivals' = arrivals + 1
           /\ IF writeIo = "fail"
              THEN /\ SetReq(r, Http500(rq0, "temp file write failed"))
                   /\ UNCHANGED <<storeVars, ledgerVars>>
              ELSE IF ~use_cache
              THEN /\ SetReq(r, [rq0 EXCEPT !.pc = "extracting", !.extracted = TRUE])
                   /\ UNCHANGED <<storeVars, ledgerVars>>
              ELSE \E getIo \in StoreOutcomes :
                   LET ret == GetReturn(key, getIo)
                       rq1 == [rq0 EXCEPT !.getIo = getIo,
                                          !.prior = /\ getIo = "ok"
                                                    /\ setLog[key].set
                                                    /\ now < setLog[key].at + AnalysisTTL]
                   IN /\ DoCacheGet(key, getIo)
                      /\ IF ret.raised
                         THEN /\ SetReq(r, Http500(rq1, "cache get failed"))
                              /\ UNCHANGED ledgerVars
                         ELSE IF Truthy(ret.value)
                         THEN \E saveIo \in SaveOutcomes :
                              /\ DoRecordCacheHit(saveIo)
                              /\ SetReq(r, IF SaveRaises(saveIo)
                                           THEN Http500([rq1 EXCEPT !.cached = TRUE],
                                                        "ledger save failed")
                                           ELSE HitResponse([rq1 EXCEPT !.cached = TRUE],
                                                            ret.value))
                         ELSE /\ SetReq(r, [rq1 EXCEPT !.pc = "extracting",
                                                       !.extracted = TRUE])
                              /\ UNCHANGED ledgerVars
           /\ UNCHANGED <<clockVars, routerVars, auxVars, obsVars>>

\* What extract_features raises: ValueError when the container cannot be
\* opened, ZeroDivisionError when a frame is sampled from a video whose
\* frame rate reads 0
ExtractionFailures == {"Cannot open video", "float division by zero"}

\* Feature extraction has finished on the worker pool; the handler resumes
\* and calls the router, or answers 500 when the extraction raised.
ExtractDone(r) ==
    /\ req[r].pc = "extracting"
    /\ \/ \E error \in ExtractionFailures :
              /\ SetReq(r, Http500(req[r], error))
              /\ UNCHANGED <<storeVars, ledgerVars>>
       \/ RouterAnalyzeVideo(r, req[r])
    /\ UNCHANGED <<clockVars, routerVars, auxVars, obsVars, arrivals>>

\* Faulty variant of the polling loop that sleeps without asking get_file
\* again.  C13 tells it from PollStep.
PollStepWithoutRefresh(r) ==
    /\ req[r].pc = "polling"
    /\ UNCHANGED vars

\* asyncio.sleep(2) has elapsed: genai.get_file is asked for the state again.
\* While the state is PROCESSING the request sleeps again, any number of
\* times.
PollStep(r) ==
    /\ req[r].pc = "polling"
    /\ \/ CloudFail(r, req[r], "get_file failed")
       \/ UNCHANGED <<req, storeVars, ledgerVars>>
       \/ \E state \in {"ACTIVE", "FAILED"} :
              GeminiProceed(r, [req[r] EXCEPT !.fileState = state], state)
    /\ UNCHANGED <<clockVars, routerVars, auxVars, obsVars, arrivals>>

\* create_chat_completion has finished on the executor.
LocalDone(r) ==
    /\ req[r].pc = "local_llm"
    /\ \/ RouterRaise(r, req[r], "create_chat_completion failed")
       \/ \E text \in ResponseTexts :
              IF ParseLocalResponse(text).raised
              THEN RouterRaise(r, req[r], "response is not valid JSON")
              ELSE \E tokens \in ResponseTokens :
                      Finish(r, req[r],
                             LocalResult(ParseLocalResponse(text).value, tokens))
    /\ UNCHANGED <<clockVars, routerVars, auxVars, obsVars, arrivals>>

\* POST /api/cache/clear
ClearCache ==
    \E io \in StoreOutcomes :
        /\ DoCacheClear(io)
        /\ UNCHANGED <<clockVars, ledgerVars, obsVars, routerVars, auxVars, reqVars>>

-----------------------------------------------------------------------------
(* The chat and image endpoints, the video processor and its worker pool *)

\* Faulty variant of AIRouter.chat that serves chat locally whenever the cloud is missing.
\* C22 tells it from ChatRoute.
ChatRouteLocalWhenCloudMissing(use_local) ==
    IF use_local /\ local_llm_available THEN "local_llm"
    ELSE IF gemini_available THEN "gemini"
    ELSE IF local_llm_available THEN "local_llm"
    ELSE "raise"

\* AIRouter.chat: the provider a chat request is sent to
ChatRoute(use_local) ==
    IF use_local /\ local_llm_available THEN "local_llm"
    ELSE IF gemini_available THEN "gemini"
    ELSE "raise"

\* Faulty variant of generate_image that turns to the local model when it
\* is asked to and the cloud is missing.  C23 tells it from ImageRoute.
ImageRouteLocalWhenAsked(use_local) ==
    IF gemini_available THEN "gemini_imagen"
    ELSE IF use_local /\ local_llm_available THEN "local_llm"
    ELSE "raise"

\* AIRouter.generate_image: use_local is not read
ImageRoute(use_local) ==
    IF ~gemini_available THEN "raise" ELSE "gemini_imagen"

\* The model generate_image asks for, which is also the default model of
\* record_image_generation
ImageModel == "imagen-3.0-generate-001"

\* analysis_id of a chat request: absent, or the fingerprint of some bytes
AnalysisIds == {"none"} \cup {Sha256Hex(c) : c \in Contents}

\* Outcomes of a provider call
CallOutcomes == {"ok", "fail"}

\* No chat, image or reset request yet.  calls lists the provider calls of the
\* last request answered, served counts the requests answered, prev and
\* prevFile are the ledger and its file as the step that answered found
\* them, pending lists the chat requests suspended in _chat_local at
\* run_in_executor, in the order they arrived.
NoService ==
    [op |-> "none", use_local |-> FALSE, calls |-> <<>>, status |-> 0,
     provider |-> "none", cost |-> 0, detail |-> "none", served |-> 0,
     prev |-> LedgerAfterReset,
     prevFile |-> NoCostsFile,
     pending |-> <<>>]

\* Requests received so far: answered or suspended
Received == svc.served + Len(svc.pending)

\* What the endpoint answered; pending is the list of suspended chats the
\* answer leaves
Served(op, use_local, calls, status, provider, cost, detail, pending) ==
    svc' = [op |-> op, use_local |-> use_local, calls |-> calls,
            status |-> status, provider |-> provider, cost |-> cost,
            detail |-> detail, served |-> svc.served + 1,
            prev |-> ledger, prevFile |-> costsFile,
            pending |-> pending]

\* record_chat and the answer of POST /api/chat, once the provider has
\* returned
ChatAnswer(use_local, route, tokens, saveIo, pending) ==
    /\ DoRecordChat(route, tokens, saveIo)
    /\ IF SaveRaises(saveIo)
       THEN Served("chat", use_local, <<route>>, 500, "none", 0,
                   "ledger save failed", pending)
       ELSE Served("chat", use_local, <<route>>, 200, route,
                   ChatCost(route, tokens), "none", pending)

\* POST /api/chat up to its first suspension: look the context up and route.
\* _chat_gemini calls generate_content on the event loop, so a cloud chat is
\* called, recorded and answered in this step; _chat_local hands
\* create_chat_completion to the executor and the request is suspended.
ChatRequest ==
    \E use_local \in BOOLEAN, analysis_id \in AnalysisIds,
       getIo \in StoreOutcomes, outcome \in CallOutcomes,
       tokens \in TokenCounts, saveIo \in SaveOutcomes :
        LET route == ChatRoute(use_local) IN
        /\ Received < MaxApiCalls
        /\ IF analysis_id = "none"
           THEN getIo = "ok" /\ UNCHANGED storeVars
           ELSE DoCacheGet(<<"analysis:", analysis_id>>, getIo)
        /\ IF route = "raise"
           THEN /\ outcome = "fail" /\ tokens = 0 /\ saveIo = "ok"
                /\ Served("chat", use_local, <<>>, 500, "none", 0,
                          "No AI provider available for chat", svc.pending)
                /\ UNCHANGED ledgerVars
           ELSE IF route = "local_llm"
           THEN /\ outcome = "ok" /\ tokens = 0 /\ saveIo = "ok"
                /\ svc' = [svc EXCEPT !.pending =
                               Append(@, [use_local |-> use_local, route |-> route])]
                /\ UNCHANGED ledgerVars
           ELSE IF outcome = "fail"
           THEN /\ tokens = 0 /\ saveIo = "ok"
                /\ Served("chat", use_local, <<route>>, 500, "none", 0,
                          "chat call failed", svc.pending)
                /\ UNCHANGED ledgerVars
           ELSE ChatAnswer(use_local, route, tokens, saveIo, svc.pending)
        /\ UNCHANGED <<clockVars, obsVars, routerVars, reqVars, vid, pool, tracker>>

\* create_chat_completion has finished on the executor: a suspended chat
\* request resumes, whichever has finished first, and is recorded and
\* answered, or answered 500 when the call raised
ChatLocalDone ==
    \E i \in 1..Len(svc.pending), outcome \in CallOutcomes,
       tokens \in TokenCounts, saveIo \in SaveOutcomes :
        LET chat == svc.pending[i]
            others == SubSeq(svc.pending, 1, i - 1)
                          \o SubSeq(svc.pending, i + 1, Len(svc.pending))
        IN
        /\ IF outcome = "fail"
           THEN /\ tokens = 0 /\ saveIo = "ok"
                /\ Served("chat", chat.use_local, <<chat.route>>, 500, "none", 0,
                          "chat call failed", others)
                /\ UNCHANGED ledgerVars
           ELSE ChatAnswer(chat.use_local, chat.route, tokens, saveIo, others)
        /\ UNCHANGED <<cacheVars, obsVars, routerVars, reqVars, vid, pool, tracker>>

\* POST /api/generate-image: generate_images is called on the event loop,
\* so the request is served in one step
GenerateImage ==
    \E use_local \in BOOLEAN, outcome \in CallOutcomes, saveIo \in SaveOutcomes :
        LET route == ImageRoute(use_local) IN
        /\ Received < MaxApiCalls
        /\ IF route = "raise"
           THEN /\ outcome = "fail" /\ saveIo = "ok"
                /\ Served("image", use_local, <<>>, 500, "none", 0,
                          "Image generation requires Gemini API", svc.pending)
                /\ UNCHANGED ledgerVars
           ELSE IF outcome = "fail"
           THEN /\ saveIo = "ok"
                /\ Served("image", use_local, <<route>>, 500, "none", 0,
                          "generate_images failed", svc.pending)
                /\ UNCHANGED ledgerVars
           ELSE /\ DoRecordImageGeneration(route, ImageModel, saveIo)
                /\ IF SaveRaises(saveIo)
                   THEN Served("image", use_local, <<route>>, 500, "none", 0,
                               "ledger save failed", svc.pending)
                   ELSE Served("image", use_local, <<route>>, 200, route,
                               ImageCost(ImageModel), "none", svc.pending)
        /\ UNCHANGED <<cacheVars, obsVars, routerVars, reqVars, vid, pool, tracker>>

\* POST /api/costs/reset: cost_tracker.reset(), answered {"status": "reset"};
\* an error of the save is not caught and is answered 500
ResetCosts ==
    \E io \in SaveOutcomes :
        /\ Received < MaxApiCalls
        /\ DoReset(io)
        /\ IF SaveRaises(io)
           THEN Served("reset", FALSE, <<>>, 500, "none", 0, "ledger save failed",
                       svc.pending)
           ELSE Served("reset", FALSE, <<>>, 200, "none", 0, "none", svc.pending)
        /\ UNCHANGED <<cacheVars, obsVars, routerVars, reqVars, vid, pool, tracker>>

\* ---- VideoProcessor

\* A quotient the code computes in floating point, kept as the pair it is
\* computed from
Ratio(n, d) == [num |-> n, den |-> d]

\* BGR pixels: black, two greys and a pure red
Pixels == {<<0, 0, 0>>, <<30, 30, 30>>, <<50, 50, 50>>, <<0, 0, 255>>}

\* Frames of two pixels
Frames == {<<p, q>> : p \in Pixels, q \in Pixels}

\* Number of pixels of a frame
FramePixels == 2

\* The frame sequences a container can hold
FrameSeqs == UNION {[1..n -> Frames] : n \in 0..MaxFrames}

\* cv2.cvtColor(frame, cv2.COLOR_BGR2GRAY) on one 8-bit pixel: the
\* fixed-point weighted sum of OpenCV
Gray(px) == (px[3] * 4899 + px[2] * 9617 + px[1] * 1868 + 8192) \div 16384

AbsDiff(a, b) == IF a >= b THEN a - b ELSE b - a

\* np.sum(cv2.absdiff(prev_frame, gray))
SumAbsDiff(f, g) ==
    AbsDiff(Gray(f[1]), Gray(g[1])) + AbsDiff(Gray(f[2]), Gray(g[2]))

\* scene_threshold = 30.0
SceneThreshold == 30

\* mean_diff > scene_threshold
SceneChange(prev, cur) == SumAbsDiff(prev, cur) > SceneThreshold * FramePixels

\* The while loop of _detect_scenes from frame index idx on (0-based), with
\* the scenes collected so far.  A scene change with fps = 0 raises
\* ZeroDivisionError at frame_idx / fps.
RECURSIVE DetectLoop(_, _, _, _)
DetectLoop(frames, fps, idx, scenes) ==
    IF idx >= Len(frames) THEN [raised |-> FALSE, scenes |-> scenes]
    ELSE IF idx >= 1 /\ SceneChange(frames[idx], frames[idx + 1])
    THEN IF fps = 0 THEN [raised |-> TRUE, scenes |-> <<>>]
         ELSE DetectLoop(frames, fps, idx + 1,
                  Append(scenes,
                         [frame_index |-> idx,
                          timestamp |-> Ratio(idx, fps),
                          intensity |-> Ratio(SumAbsDiff(frames[idx], frames[idx + 1]),
                                              FramePixels)]))
    ELSE DetectLoop(frames, fps, idx + 1, scenes)

\* _detect_scenes(video_path, fps)
DetectScenes(frames, fps) == DetectLoop(frames, fps, 0, <<>>)

\* The containers handed to extract_features: whether cv2 can open it, the
\* frame rate and frame count it reports, the frames that can be read from
\* it, and whether its audio can be extracted and loaded
FrameRates == {0, 25}

PlainFrames == {<<p, p>> : p \in {<<0, 0, 0>>, <<50, 50, 50>>}}

Videos ==
    [opens : BOOLEAN, fps : FrameRates, frame_count : 0..MaxFrames,
     frames : UNION {[1..n -> PlainFrames] : n \in 0..MaxFrames},
     audio : StoreOutcomes]

\* frame_interval arguments: every frame, and the default
FrameIntervals == {1, 30}

\* range(0, frame_count, frame_interval) restricted to the indices at which
\* cap.read() returns a frame
SampledIndices(v, frame_interval) ==
    {i \in 0..(v.frame_count - 1) : i % frame_interval = 0 /\ i < Len(v.frames)}

\* np.mean of the grey frame
Brightness(f) == Ratio(Gray(f[1]) + Gray(f[2]), FramePixels)

\* The frames list: one record per sampled index, in increasing order
RECURSIVE SampleFrom(_, _, _)
SampleFrom(v, frame_interval, idx) ==
    IF idx >= v.frame_count THEN <<>>
    ELSE IF idx \in SampledIndices(v, frame_interval)
    THEN <<[frame_index |-> idx, timestamp |-> Ratio(idx, v.fps),
            brightness |-> Brightness(v.frames[idx + 1])]>>
         \o SampleFrom(v, frame_interval, idx + 1)
    ELSE SampleFrom(v, frame_interval, idx + 1)

\* _extract_audio_features: the audio profile, or the error marker when
\* ffmpeg or librosa raised
AudioProfileKeys ==
    {"tempo", "beat_count", "avg_spectral_centroid", "zero_crossing_rate",
     "avg_energy", "duration"}

ExtractAudioFeatures(v) ==
    IF v.audio = "fail" THEN [keys |-> {"error"}] ELSE [keys |-> AudioProfileKeys]

\* duration = frame_count / fps if fps > 0 else 0
Duration(frame_count, fps) ==
    IF fps > 0 THEN Ratio(frame_count, fps) ELSE Ratio(0, 1)

NoFeatures ==
    [keys |-> {}, metadata |-> [fps |-> 0, frame_count |-> 0, duration |-> Ratio(0, 1)],
     frames |-> <<>>, scenes |-> <<>>, audio |-> [keys |-> {}]]

Raised(error) == [raised |-> TRUE, error |-> error, features |-> NoFeatures]

\* _extract_features_sync(video_path, extract_audio, sample_frames,
\* frame_interval).  The motion_blur of a sampled frame is left out.
ExtractFeaturesSync(v, extract_audio, sample_frames, frame_interval) ==
    IF ~v.opens THEN Raised("Cannot open video")
    ELSE IF sample_frames /\ v.fps = 0 /\ SampledIndices(v, frame_interval) # {}
    THEN Raised("float division by zero")
    ELSE IF DetectScenes(v.frames, v.fps).raised
    THEN Raised("float division by zero")
    ELSE [raised |-> FALSE, error |-> "none",
          features |->
              [keys |-> {"metadata", "scenes"}
                           \cup (IF sample_frames THEN {"frames"} ELSE {})
                           \cup (IF extract_audio THEN {"audio"} ELSE {}),
               metadata |-> [fps |-> v.fps, frame_count |-> v.frame_count,
                             duration |-> Duration(v.frame_count, v.fps)],
               frames |-> IF sample_frames THEN SampleFrom(v, frame_interval, 0)
                          ELSE <<>>,
               scenes |-> DetectScenes(v.frames, v.fps).scenes,
               audio |-> IF extract_audio THEN ExtractAudioFeatures(v)
                         ELSE [keys |-> {}]]]

\* The result field while extract_features has not been called
NotExtracted == [raised |-> FALSE, error |-> "none", features |-> NoFeatures]

ClosedVideo ==
    [opens |-> FALSE, fps |-> 0, frame_count |-> 0, frames |-> <<>>, audio |-> "ok"]

\* No call of the processor yet
NoVideo ==
    [op |-> "none", video |-> ClosedVideo, extract_audio |-> FALSE,
     sample_frames |-> FALSE, frame_interval |-> 30,
     result |-> NotExtracted, detected |-> [raised |-> FALSE, scenes |-> <<>>]]

\* video_processor.extract_features(path, extract_audio, sample_frames,
\* frame_interval) has returned or raised.  The processor keeps nothing
\* between calls, so a behaviour makes one call.
ExtractFeatures ==
    \E v \in Videos, extract_audio \in BOOLEAN, sample_frames \in BOOLEAN,
       frame_interval \in FrameIntervals :
        /\ vid.op = "none"
        /\ vid' = [op |-> "extract_features", video |-> v,
                   extract_audio |-> extract_audio,
                   sample_frames |-> sample_frames,
                   frame_interval |-> frame_interval,
                   result |-> ExtractFeaturesSync(v, extract_audio, sample_frames,
                                                  frame_interval),
                   detected |-> [raised |-> FALSE, scenes |-> <<>>]]
        /\ UNCHANGED <<cacheVars, ledgerVars, obsVars, routerVars, reqVars, svc, pool, tracker>>

\* _detect_scenes on the frames of a container, with the frame rate the
\* caller read from it
DetectScenesCall ==
    \E frames \in FrameSeqs, fps \in FrameRates :
        /\ vid.op = "none"
        /\ vid' = [op |-> "detect_scenes",
                   video |-> [opens |-> TRUE, fps |-> fps,
                              frame_count |-> Len(frames), frames |-> frames,
                              audio |-> "ok"],
                   extract_audio |-> FALSE, sample_frames |-> FALSE,
                   frame_interval |-> 30, result |-> NotExtracted,
                   detected |-> DetectScenes(frames, fps)]
        /\ UNCHANGED <<cacheVars, ledgerVars, obsVars, routerVars, reqVars, svc, pool, tracker>>

\* ---- The worker pool of the VideoProcessor

\* ThreadPoolExecutor(max_workers=max_workers), max_workers: int = 4
max_workers == 4

\* The calls that hand work to self.executor: extract_features hands it
\* _extract_features_sync, preprocess hands it _preprocess_sync
PoolCalls == {"extract_features", "preprocess"}

\* The tasks submitted to the executor, numbered in the order of their
\* submission
Tasks == 1..MaxTasks

\* Nothing submitted yet.  A task is new (not submitted), queued (in the
\* work queue of the executor), running (on a worker thread) or done.
IdlePool == [t \in Tasks |-> [call |-> "none", state |-> "new"]]

Running == {t \in Tasks : pool[t].state = "running"}

Queued == {t \in Tasks : pool[t].state = "queued"}

\* The feature extractions among the tasks
Extractions == {t \in Tasks : pool[t].call = "extract_features"}

\* Faulty variant of the executor that starts a thread for every task.
\* C27 tells it from WorkerFree.
WorkerAlwaysFree == TRUE

\* A worker thread of the executor is idle or can still be created
WorkerFree == Cardinality(Running) < max_workers

\* extract_features and preprocess: loop.run_in_executor(self.executor, ...)
\* puts the task into the work queue of the executor
PoolSubmit(call) ==
    \E t \in Tasks :
        /\ pool[t].state = "new"
        /\ \A u \in Tasks : u < t => pool[u].state # "new"
        /\ pool' = [pool EXCEPT ![t] = [call |-> call, state |-> "queued"]]
        /\ UNCHANGED <<cacheVars, ledgerVars, obsVars, routerVars, reqVars, svc, vid, tracker>>

\* A worker thread takes the oldest queued task
PoolStart ==
    \E t \in Queued :
        /\ WorkerFree
        /\ \A u \in Queued : t <= u
        /\ pool' = [pool EXCEPT ![t].state = "running"]
        /\ UNCHANGED <<cacheVars, ledgerVars, obsVars, routerVars, reqVars, svc, vid, tracker>>

\* _extract_features_sync or _preprocess_sync returns or raises on its
\* worker thread
PoolFinish(t) ==
    /\ pool[t].state = "running"
    /\ pool' = [pool EXCEPT ![t].state = "done"]
    /\ UNCHANGED <<cacheVars, ledgerVars, obsVars, routerVars, reqVars, svc, vid, tracker>>

\* A running feature extraction returns or raises
ExtractionFinish(t) ==
    /\ pool[t].call = "extract_features"
    /\ PoolFinish(t)

-----------------------------------------------------------------------------
(* CostTracker in floating point *)

\* The costs as the code holds them: Python floats, IEEE 754 binary64.  A
\* non-negative float is m * 2^e with m odd, written in binary with the
\* lowest bit first and at most Precision bits; 0.0 has no bits.
Precision == 53

\* F of the value of x: x is evaluated once, where F(x) evaluates it each
\* time F uses its argument
Strict(F(_), x) == CHOOSE r \in {F(v) : v \in {x}} : TRUE

Zero == [m |-> <<>>, e |-> 0]

Zeros(n) == [i \in 1..n |-> 0]

\* The number of zero bits below the lowest set bit
LowZeros(bits) ==
    LET set == {i \in 1..Len(bits) : bits[i] = 1}
    IN IF set = {} THEN Len(bits)
       ELSE (CHOOSE i \in set : \A j \in set : i <= j) - 1

\* The bits without the zeros above the highest set bit
StripHigh(bits) ==
    LET n == Len(bits)
    IN SubSeq(bits, 1, n - LowZeros([i \in 1..n |-> bits[n + 1 - i]]))

\* Long arithmetic works on limbs: the digits of a number to the base 2^14,
\* lowest first, so that the product of two limbs fits a machine integer
LimbBits == 14
Base == 16384
PowersOfTwo == <<1, 2, 4, 8, 16, 32, 64, 128, 256, 512, 1024, 2048, 4096, 8192>>

\* The binary digits of a natural number, lowest first
RECURSIVE NatBits(_)
NatBits(n) == IF n = 0 THEN <<>> ELSE <<n % 2>> \o NatBits(n \div 2)

\* The natural number with these binary digits
RECURSIVE BitsNat(_)
BitsNat(bits) == IF bits = <<>> THEN 0 ELSE Head(bits) + 2 * BitsNat(Tail(bits))

\* The limbs without the zeros above the highest limb that is not zero
StripLimbs(a) ==
    LET used == {i \in 1..Len(a) : a[i] # 0}
    IN IF used = {} THEN <<>>
       ELSE SubSeq(a, 1, CHOOSE i \in used : \A j \in used : j <= i)

Limbs(bits) ==
    [i \in 1..((Len(bits) + LimbBits - 1) \div LimbBits) |->
        BitsNat(SubSeq(bits, LimbBits * (i - 1) + 1,
                       IF LimbBits * i < Len(bits) THEN LimbBits * i ELSE Len(bits)))]

LimbsBits(a) ==
    StripHigh([p \in 1..(LimbBits * Len(a)) |->
        (a[((p - 1) \div LimbBits) + 1] \div PowersOfTwo[((p - 1) % LimbBits) + 1]) % 2])

\* a < b for two numbers in limbs without high zeros
LimbsLess(a, b) ==
    IF Len(a) # Len(b) THEN Len(a) < Len(b)
    ELSE \E i \in 1..Len(a) :
            /\ a[i] < b[i]
            /\ \A j \in (i + 1)..Len(a) : a[j] = b[j]

\* The limbs of a number given by column sums, each below 2^31 - 2^17
RECURSIVE Carry(_, _)
Carry(columns, carry) ==
    IF columns = <<>>
    THEN IF carry = 0 THEN <<>> ELSE <<carry % Base>> \o Carry(columns, carry \div Base)
    ELSE LET t == Head(columns) + carry
         IN <<t % Base>> \o Carry(Tail(columns), t \div Base)

\* a + b of two numbers in limbs
LimbsAdd(a, b) ==
    Strict(LAMBDA columns : Carry(columns, 0),
           [i \in 1..(IF Len(a) < Len(b) THEN Len(b) ELSE Len(a)) |->
               (IF i <= Len(a) THEN a[i] ELSE 0) + (IF i <= Len(b) THEN b[i] ELSE 0)])

\* a - b of two numbers in limbs, a >= b
RECURSIVE LimbsSub(_, _, _)
LimbsSub(a, b, borrow) ==
    IF a = <<>> THEN <<>>
    ELSE LET d == Head(a) - (IF b = <<>> THEN 0 ELSE Head(b)) - borrow
         IN <<(d + Base) % Base>>
            \o LimbsSub(Tail(a), IF b = <<>> THEN b ELSE Tail(b), IF d < 0 THEN 1 ELSE 0)

RECURSIVE ColumnSum(_, _, _, _)
ColumnSum(a, b, k, i) ==
    IF i > Len(a) THEN 0
    ELSE (IF k + 1 - i \in 1..Len(b) THEN a[i] * b[k + 1 - i] ELSE 0)
         + ColumnSum(a, b, k, i + 1)

\* a * b of two numbers of at most four limbs each
LimbsMul(a, b) ==
    IF a = <<>> \/ b = <<>> THEN <<>>
    ELSE StripLimbs(Carry([k \in 1..(Len(a) + Len(b) - 1) |-> ColumnSum(a, b, k, 1)], 0))

\* One digit of a long division: the d with d * den <= num < (d + 1) * den,
\* for num < Base * den.  The highest limb of den is at least Base / 2, so
\* that the quotient of the two highest limbs of num by the highest limb
\* of den is d, d + 1 or d + 2.
QuotientDigit(num, den) ==
    LET n == Len(den)
        limb(i) == IF i <= Len(num) THEN num[i] ELSE 0
        guess == (limb(n + 1) * Base + limb(n)) \div den[n]
        most == IF guess < Base THEN guess ELSE Base - 1
    IN CHOOSE d \in (most - 2)..most :
          /\ d >= 0
          /\ ~LimbsLess(num, LimbsMul(den, <<d>>))
          /\ LimbsLess(num, LimbsMul(den, <<d + 1>>))

\* Quotient q and remainder r of num by den, by long division; a num of
\* fewer limbs than den is the remainder
RECURSIVE LimbsDivMod(_, _)
LimbsDivMod(num, den) ==
    IF Len(num) < Len(den) THEN [q |-> <<>>, r |-> StripLimbs(num)]
    ELSE LET high == LimbsDivMod(Tail(num), den)
             r2 == StripLimbs(<<Head(num)>> \o high.r)
             d == QuotientDigit(r2, den)
         IN [q |-> <<d>> \o high.q,
             r |-> StripLimbs(LimbsSub(r2, LimbsMul(den, <<d>>), 0))]

\* The mantissa of x as limbs, in units of 2^e for an e <= x.e
Aligned(x, e) == Limbs(Zeros(x.e - e) \o x.m)

\* bits * 2^e with an odd mantissa
Normal(bits, e) ==
    LET b == StripHigh(bits)
        k == LowZeros(b)
    IN IF b = <<>> THEN Zero ELSE [m |-> SubSeq(b, k + 1, Len(b)), e |-> e + k]

\* bits + 1
Increment(bits) ==
    LET k == LowZeros([i \in 1..Len(bits) |-> 1 - bits[i]])
    IN Zeros(k) \o <<1>> \o SubSeq(bits, k + 2, Len(bits))

\* Round to nearest, ties to even: the float nearest to bits * 2^e
RoundNearestEven(bits, e) ==
    LET k == Len(bits) - Precision
        kept == SubSeq(bits, k + 1, Len(bits))
        half == bits[k] = 1
        sticky == \E i \in 1..(k - 1) : bits[i] = 1
        up == half /\ (sticky \/ kept[1] = 1)
    IN IF k <= 0 THEN Normal(bits, e)
       ELSE Strict(LAMBDA b : Normal(b, e + k), IF up THEN Increment(kept) ELSE kept)

\* The position above the highest set bit of a float
Top(x) == x.e + Len(x.m)

\* x + y of two floats.  A term below a quarter of the last place of the
\* other one is rounded away.
FloatAdd(x, y) ==
    IF x.m = <<>> THEN y
    ELSE IF y.m = <<>> THEN x
    ELSE IF Top(x) - Top(y) >= Precision + 2 THEN x
    ELSE IF Top(y) - Top(x) >= Precision + 2 THEN y
    ELSE LET e == IF x.e < y.e THEN x.e ELSE y.e
             sum == Strict(LAMBDA a : Strict(LAMBDA b : LimbsAdd(a, b), Aligned(y, e)),
                           Aligned(x, e))
             bits == Strict(LAMBDA a : LimbsBits(a), sum)
         IN Strict(LAMBDA b : RoundNearestEven(b, e), bits)

\* One hexadecimal digit as four bits, lowest first
Nibble(d) == <<d % 2, (d \div 2) % 2, (d \div 4) % 2, d \div 8>>

RECURSIVE HexBits(_)
HexBits(digits) ==
    IF digits = <<>> THEN <<>> ELSE HexBits(Tail(digits)) \o Nibble(Head(digits))

\* The float literal 0x1.<13 hexadecimal digits>p<exp>, as float.hex()
\* prints it, given by its 14 digits
FloatHex(digits, exp) == Normal(HexBits(digits), exp - 52)

\* float(n) of a natural number below 2^31
IntFloat(n) == Normal(NatBits(n), 0)

\* x < y of two non-negative floats
FloatLess(x, y) ==
    IF y.m = <<>> THEN FALSE
    ELSE IF x.m = <<>> THEN TRUE
    ELSE IF Top(x) # Top(y) THEN Top(x) < Top(y)
    ELSE LET e == IF x.e < y.e THEN x.e ELSE y.e
         IN LimbsLess(Aligned(x, e), Aligned(y, e))

\* x * y of two non-negative floats
FloatMul(x, y) ==
    IF x.m = <<>> \/ y.m = <<>> THEN Zero
    ELSE RoundNearestEven(LimbsBits(LimbsMul(Limbs(x.m), Limbs(y.m))), x.e + y.e)

\* x / y of two non-negative floats, y not 0.0.  Both mantissas are
\* shifted: the divisor to fill its highest limb, the dividend so far that
\* the quotient has at least two bits more than a float holds.  One more
\* bit tells whether the division left a remainder.
FloatDiv(x, y) ==
    IF x.m = <<>> THEN Zero
    ELSE LET fill == (LimbBits - (Len(y.m) % LimbBits)) % LimbBits
             need == Precision + 2 + Len(y.m) - Len(x.m)
             k == IF need > 0 THEN need ELSE 0
             d == LimbsDivMod(Limbs(Zeros(fill + k) \o x.m), Limbs(Zeros(fill) \o y.m))
         IN RoundNearestEven(
                <<IF d.r = <<>> THEN 0 ELSE 1>> \o LimbsBits(StripLimbs(d.q)),
                x.e - y.e - k - 1)

\* A float with its sign; -0.0 is the negative float without bits
Signed(neg, x) == [neg |-> neg, m |-> x.m, e |-> x.e]

\* big - small of two non-negative floats, big > small
FloatDifference(big, small) ==
    IF small.m = <<>> THEN big
    ELSE IF Top(big) - Top(small) >= Precision + 3 THEN big
    ELSE LET e == IF big.e < small.e THEN big.e ELSE small.e
         IN RoundNearestEven(
                LimbsBits(LimbsSub(Aligned(big, e), Aligned(small, e), 0)), e)

\* x - y of two non-negative floats
FloatSub(x, y) ==
    IF x = y THEN Signed(FALSE, Zero)
    ELSE IF FloatLess(x, y) THEN Signed(TRUE, FloatDifference(y, x))
    ELSE Signed(FALSE, FloatDifference(x, y))

\* bits * 2^e rounded to the nearest integer, ties to even
RoundHalfEven(bits, e) ==
    IF e >= 0 THEN Zeros(e) \o bits
    ELSE LET k == -e
             whole == IF k >= Len(bits) THEN <<>> ELSE SubSeq(bits, k + 1, Len(bits))
             half == k <= Len(bits) /\ bits[k] = 1
             sticky == \E i \in 1..(k - 1) : i <= Len(bits) /\ bits[i] = 1
             odd == whole # <<>> /\ whole[1] = 1
         IN IF half /\ (sticky \/ odd) THEN Increment(whole) ELSE whole

Float100 == IntFloat(100)

\* round(x, 2): the exact value of the float is rounded to a whole number of
\* hundredths, ties to even, and the result is the float nearest to that
\* decimal number; the sign is kept, also on zero
Round2(x) ==
    LET hundredths == RoundHalfEven(LimbsBits(LimbsMul(Limbs(x.m), <<100>>)), x.e)
    IN IF hundredths = <<>> THEN Signed(x.neg, Zero)
       ELSE Signed(x.neg, FloatDiv(Normal(hundredths, 0), Float100))

\* COST_PER_1K_TOKENS and the defaults of .get(model, default), as floats
Float0125 == FloatHex(<<1, 0, 0, 0, 0, 0, 0, 0, 0, 0, 0, 0, 0, 0>>, -3)

Float000001875 == FloatHex(<<1, 3, 10, 9, 2, 10, 3, 0, 5, 5, 3, 2, 6, 1>>, -16)

Float00003 == FloatHex(<<1, 3, 10, 9, 2, 10, 3, 0, 5, 5, 3, 2, 6, 1>>, -12)

Float004 == FloatHex(<<1, 4, 7, 10, 14, 1, 4, 7, 10, 14, 1, 4, 7, 11>>, -5)

Float002 == FloatHex(<<1, 4, 7, 10, 14, 1, 4, 7, 10, 14, 1, 4, 7, 11>>, -6)

Float005 == FloatHex(<<1, 9, 9, 9, 9, 9, 9, 9, 9, 9, 9, 9, 9, 10>>, -5)

Float015 == FloatHex(<<1, 3, 3, 3, 3, 3, 3, 3, 3, 3, 3, 3, 3, 3>>, -3)

\* self.COST_PER_1K_TOKENS.get(model, default)
FloatPer1K(model, default) ==
    CASE model = "gemini-3-pro-preview" -> Float0125
      [] model = "gemini-1.5-flash" -> Float000001875
      [] model = "gemini-2.5-flash-image" -> Float00003
      [] model = "imagen-4.0-generate-001" -> Float004
      [] model = "imagen-3.0-generate-001" -> Float002
      [] model = "local_llm" -> Zero
      [] OTHER -> default

\* (tokens / 1000) * cost_per_1k: the quotient of the two integers is
\* rounded to a float, and so is its product with the price
TokensTimes(tokens, rate) == FloatMul(FloatDiv(IntFloat(tokens), IntFloat(1000)), rate)

\* record_analysis: cost = (tokens / 1000) * cost_per_1k, default price 0.05
FloatAnalysisCost(provider, model, tokens) ==
    IF provider = "local_llm" THEN Zero
    ELSE TokensTimes(tokens, FloatPer1K(model, Float005))

\* record_chat: the chat model is always gemini-1.5-flash
FloatChatCost(provider, tokens) ==
    IF provider = "local_llm" THEN Zero
    ELSE TokensTimes(tokens, FloatPer1K("gemini-1.5-flash", Float000001875))

\* record_image_generation: a flat price per image, default 0.02
FloatImageCost(model) == FloatPer1K(model, Float002)

\* The fields of a CostTracker after reset, and of one built without a file
TrackerZero ==
    [total_cost |-> Zero, breakdown |-> <<>>, api_calls |-> 0, cache_hits |-> 0]

\* No call of the tracker was made yet, or the last one returned nothing
NothingReturned == [op |-> "none", budget |-> Zero, result |-> [exceeded |-> FALSE]]

\* A new tracker with no costs.json.  records counts the calls of
\* record_analysis, record_chat and record_image_generation since the last
\* reset, calls all the mutating calls made, and last is what the last
\* call returned.
NoTracker ==
    [mem |-> TrackerZero,
     file |-> [exists |-> FALSE, readable |-> FALSE, data |-> TrackerZero],
     records |-> 0, calls |-> 0, last |-> NothingReturned]

\* self.breakdown.get(key, 0.0)
FloatBreakdownGet(b, key) == IF key \in DOMAIN b THEN b[key] ELSE Zero

\* self.total_cost += cost; self.api_calls += 1;
\* self.breakdown[key] = self.breakdown.get(key, 0.0) + cost
TrackerAfterRecord(key, cost) ==
    [tracker.mem EXCEPT
        !.total_cost = FloatAdd(@, cost),
        !.api_calls = @ + 1,
        !.breakdown = [k \in (DOMAIN @) \cup {key} |->
                          IF k = key THEN FloatAdd(FloatBreakdownGet(@, key), cost)
                          ELSE @[k]]]

\* The whole effect of one mutating CostTracker call: the fields in memory
\* are changed first, then _save writes them, or raises and leaves the file
\* as it was (open failed) or truncated (the write failed).
DoTracker(mem, io, records) ==
    tracker' = [mem |-> mem,
                file |-> IF io = "fail" THEN tracker.file
                         ELSE IF io = "torn"
                         THEN [exists |-> TRUE, readable |-> FALSE,
                               data |-> TrackerZero]
                         ELSE [exists |-> TRUE, readable |-> TRUE, data |-> mem],
                records |-> records,
                calls |-> tracker.calls + 1,
                last |-> NothingReturned]

\* A float that is not negative, with its sign
Positive(x) == Signed(FALSE, x)

\* avg_analysis_cost = 2.0
avg_analysis_cost == IntFloat(2)

\* is_budget_exceeded: self.total_cost > monthly_budget
IsBudgetExceeded(total_cost, monthly_budget) == FloatLess(monthly_budget, total_cost)

\* Faulty variant of get_budget_status that reports a budget as exceeded as
\* soon as it is used up.  C19 tells it from BudgetStatus.
BudgetStatusAtLimit(total_cost, monthly_budget) ==
    LET remaining == FloatSub(monthly_budget, total_cost)
        percent_used == IF FloatLess(Zero, monthly_budget)
                        THEN FloatMul(FloatDiv(total_cost, monthly_budget), Float100)
                        ELSE Zero
    IN [budget |-> monthly_budget,
        spent |-> Round2(Positive(total_cost)),
        remaining |-> Round2(remaining),
        percent_used |-> Round2(Positive(percent_used)),
        exceeded |-> (remaining.neg \/ remaining.m = <<>>)]

\* get_budget_status: remaining = monthly_budget - self.total_cost and
\* percent_used = self.total_cost / monthly_budget * 100 (0 for a budget
\* that is not positive); spent, remaining and percent_used are returned
\* rounded to two decimals, exceeded is remaining < 0 before the rounding
BudgetStatus(total_cost, monthly_budget) ==
    LET remaining == FloatSub(monthly_budget, total_cost)
        percent_used == IF FloatLess(Zero, monthly_budget)
                        THEN FloatMul(FloatDiv(total_cost, monthly_budget), Float100)
                        ELSE Zero
    IN [budget |-> monthly_budget,
        spent |-> Round2(Positive(total_cost)),
        remaining |-> Round2(remaining),
        percent_used |-> Round2(Positive(percent_used)),
        exceeded |-> (remaining.neg /\ remaining.m # <<>>)]

\* Faulty variant of get_report that adds the savings to the cost.  C29
\* tells it from CostReport.
CostReportAddingSavings(l) ==
    LET total_operations == l.api_calls + l.cache_hits
        cache_hit_rate == IF total_operations > 0
                          THEN FloatMul(FloatDiv(IntFloat(l.cache_hits),
                                                 IntFloat(total_operations)), Float100)
                          ELSE Zero
        costs_saved == FloatMul(IntFloat(l.cache_hits), avg_analysis_cost)
    IN [total_cost |-> Round2(Positive(l.total_cost)),
        breakdown |-> [k \in DOMAIN l.breakdown |-> Round2(Positive(l.breakdown[k]))],
        api_calls |-> l.api_calls,
        cache_hits |-> l.cache_hits,
        cache_hit_rate |-> Round2(Positive(cache_hit_rate)),
        costs_saved |-> Round2(Positive(costs_saved)),
        net_cost |-> Round2(Positive(FloatAdd(l.total_cost, costs_saved)))]

\* get_report: cache_hit_rate = cache_hits / total_operations * 100 (0
\* without operations), costs_saved = cache_hits * avg_analysis_cost and
\* net_cost = total_cost - costs_saved; every amount is returned rounded to
\* two decimals
CostReport(l) ==
    LET total_operations == l.api_calls + l.cache_hits
        cache_hit_rate == IF total_operations > 0
                          THEN FloatMul(FloatDiv(IntFloat(l.cache_hits),
                                                 IntFloat(total_operations)), Float100)
                          ELSE Zero
        costs_saved == FloatMul(IntFloat(l.cache_hits), avg_analysis_cost)
    IN [total_cost |-> Round2(Positive(l.total_cost)),
        breakdown |-> [k \in DOMAIN l.breakdown |-> Round2(Positive(l.breakdown[k]))],
        api_calls |-> l.api_calls,
        cache_hits |-> l.cache_hits,
        cache_hit_rate |-> Round2(Positive(cache_hit_rate)),
        costs_saved |-> Round2(Positive(costs_saved)),
        net_cost |-> Round2(FloatSub(l.total_cost, costs_saved))]

\* The sums of the values of a breakdown, added in every order of its keys
RECURSIVE OrderSums(_, _, _)
OrderSums(keys, acc, b) ==
    IF keys = {} THEN {acc}
    ELSE UNION {OrderSums(keys \ {k}, FloatAdd(acc, b[k]), b) : k \in keys}

\* sum(self.breakdown.values()), in any order
BucketSums(b) == OrderSums(DOMAIN b, Zero, b)

-----------------------------------------------------------------------------
(* Initial states *)

\* A fresh deployment: an empty cache directory, no costs.json, no request
\* yet, and the two providers found available or not at startup.
Init ==
    /\ cache = [k \in Keys |-> NoEntry]
    /\ stats = [hits |-> 0, misses |-> 0, sets |-> 0]
    /\ now = 0
    /\ ticks = 0
    /\ getCalls = 0
    /\ setCalls = 0
    /\ lastOp = [op |-> "none", key |-> <<>>, io |-> "ok", at |-> 0,
                 raised |-> FALSE, value |-> None, ok |-> FALSE]
    /\ setLog = [k \in Keys |-> NoSet]
    /\ ledger = LedgerAfterReset
    /\ costsFile = NoCostsFile
    /\ ledgerOp = [op |-> "none", provider |-> "none", cost |-> 0,
                   raised |-> FALSE, before |-> 0, prev |-> LedgerAfterReset]
    /\ gemini_available \in BOOLEAN
    /\ local_llm_available \in BOOLEAN
    /\ req = [r \in Reqs |-> IdleReq]
    /\ arrivals = 0
    /\ svc = NoService
    /\ vid = NoVideo
    /\ pool = IdlePool
    /\ tracker = NoTracker

\* The same with no provider configured, for the cache and the ledger taken
\* on their own.
ComponentInit ==
    /\ cache = [k \in Keys |-> NoEntry]
    /\ stats = [hits |-> 0, misses |-> 0, sets |-> 0]
    /\ now = 0
    /\ ticks = 0
    /\ getCalls = 0
    /\ setCalls = 0
    /\ lastOp = [op |-> "none", key |-> <<>>, io |-> "ok", at |-> 0,
                 raised |-> FALSE, value |-> None, ok |-> FALSE]
    /\ setLog = [k \in Keys |-> NoSet]
    /\ ledger = LedgerAfterReset
    /\ costsFile = NoCostsFile
    /\ ledgerOp = [op |-> "none", provider |-> "none", cost |-> 0,
                   raised |-> FALSE, before |-> 0, prev |-> LedgerAfterReset]
    /\ gemini_available = FALSE
    /\ local_llm_available = FALSE
    /\ req = [r \in Reqs |-> IdleReq]
    /\ arrivals = 0
    /\ svc = NoService
    /\ vid = NoVideo
    /\ pool = IdlePool
    /\ tracker = NoTracker

-----------------------------------------------------------------------------
(* The cache as a component: any caller, any key, value and TTL *)

CacheValues == {EmptyDict, FullAnalysis}

CacheTTLs == {NoTTL, SomeTTL(0), SomeTTL(1), SomeTTL(AnalysisTTL)}

TickSteps == {1, AnalysisTTL}

CacheCalls == getCalls + setCalls

Tick ==
    \E d \in TickSteps :
        /\ ticks < MaxTicks
        /\ now' = now + d
        /\ ticks' = ticks + 1
        /\ UNCHANGED <<storeVars, ledgerVars, obsVars, routerVars, auxVars, reqVars>>

CacheGet ==
    \E k \in Keys, io \in StoreOutcomes :
        /\ CacheCalls < MaxCacheCalls
        /\ DoCacheGet(k, io)
        /\ lastOp' = [op |-> "get", key |-> k, io |-> io, at |-> now,
                      raised |-> GetReturn(k, io).raised,
                      value |-> GetReturn(k, io).value, ok |-> FALSE]
        /\ UNCHANGED <<clockVars, ledgerVars, ledgerOp, routerVars, auxVars, reqVars>>

CacheSet ==
    \E k \in Keys, v \in CacheValues, ttl \in CacheTTLs, io \in StoreOutcomes :
        /\ CacheCalls < MaxCacheCalls
        /\ DoCacheSet(k, v, ttl, io)
        /\ lastOp' = [op |-> "set", key |-> k, io |-> io, at |-> now,
                      raised |-> SetReturn(io).raised,
                      value |-> None, ok |-> SetReturn(io).ok]
        /\ UNCHANGED <<clockVars, ledgerVars, ledgerOp, routerVars, auxVars, reqVars>>

CacheDelete ==
    \E k \in Keys, io \in StoreOutcomes :
        /\ DoCacheDelete(k, io)
        /\ lastOp' = [op |-> "delete", key |-> k, io |-> io, at |-> now,
                      raised |-> FALSE, value |-> None,
                      ok |-> DeleteReturn(k, io)]
        /\ UNCHANGED <<clockVars, ledgerVars, ledgerOp, routerVars, auxVars, reqVars>>

CacheClear ==
    \E io \in StoreOutcomes :
        /\ DoCacheClear(io)
        /\ lastOp' = [op |-> "clear", key |-> <<>>, io |-> io, at |-> now,
                      raised |-> FALSE, value |-> None, ok |-> (io = "ok")]
        /\ UNCHANGED <<clockVars, ledgerVars, ledgerOp, routerVars, auxVars, reqVars>>

\* Faulty variant of the restart that comes up with an empty store.  C28
\* tells it from CacheAfterRestart.
CacheAfterRestartEmpty == DiskClear

\* Cache(str(self.cache_path)) opens the directory the last process wrote
CacheAfterRestart == cache

\* The process is restarted: a new CacheManager is constructed on the same
\* directory, with new counters
CacheRestart ==
    /\ cache' = CacheAfterRestart
    /\ stats' = [hits |-> 0, misses |-> 0, sets |-> 0]
    /\ getCalls' = 0
    /\ setCalls' = 0
    /\ lastOp' = [op |-> "restart", key |-> <<>>, io |-> "ok", at |-> now,
                  raised |-> FALSE, value |-> None, ok |-> FALSE]
    /\ UNCHANGED <<setLog, clockVars, ledgerVars, ledgerOp, routerVars, auxVars, reqVars>>

CacheNext ==
    Tick \/ CacheGet \/ CacheSet \/ CacheDelete \/ CacheClear \/ CacheRestart

-----------------------------------------------------------------------------
(* The ledger as a component: any caller, provider, model and token count *)

Providers == {"gemini", "local_llm"}

LedgerModels == {"gemini-1.5-flash", "llama-2-7b"}

ImageModels == {"imagen-4.0-generate-001"}

\* Operations recorded since the last reset
LedgerCalls == ledger.api_calls + ledger.cache_hits

\* What a direct caller observes of a CostTracker call: the operation and
\* provider it was called with, the cost it computed, whether it raised, and
\* the ledger it found
LedgerObserved(op, provider, cost, io) ==
    ledgerOp' = [op |-> op, provider |-> provider, cost |-> cost,
                 raised |-> SaveRaises(io), before |-> ledger.total_cost,
                 prev |-> ledger]

RecordAnalysis ==
    \E p \in Providers, m \in LedgerModels, t \in TokenCounts, io \in SaveOutcomes :
        /\ LedgerCalls < MaxLedgerCalls
        /\ DoRecordAnalysis(p, m, t, io)
        /\ LedgerObserved("analysis", p, AnalysisCost(p, m, t), io)
        /\ UNCHANGED <<cacheVars, lastOp, routerVars, auxVars, reqVars>>

RecordChat ==
    \E p \in Providers, t \in TokenCounts, io \in SaveOutcomes :
        /\ LedgerCalls < MaxLedgerCalls
        /\ DoRecordChat(p, t, io)
        /\ LedgerObserved("chat", p, ChatCost(p, t), io)
        /\ UNCHANGED <<cacheVars, lastOp, routerVars, auxVars, reqVars>>

RecordImageGeneration ==
    \E m \in ImageModels, io \in SaveOutcomes :
        /\ LedgerCalls < MaxLedgerCalls
        /\ DoRecordImageGeneration("gemini_imagen", m, io)
        /\ LedgerObserved("image_generation", "gemini_imagen", ImageCost(m), io)
        /\ UNCHANGED <<cacheVars, lastOp, routerVars, auxVars, reqVars>>

RecordCacheHit ==
    \E io \in SaveOutcomes :
        /\ LedgerCalls < MaxLedgerCalls
        /\ DoRecordCacheHit(io)
        /\ LedgerObserved("cache_hit", "none", 0, io)
        /\ UNCHANGED <<cacheVars, lastOp, routerVars, auxVars, reqVars>>

Reset ==
    \E io \in SaveOutcomes :
        /\ DoReset(io)
        /\ LedgerObserved("reset", "none", 0, io)
        /\ UNCHANGED <<cacheVars, lastOp, routerVars, auxVars, reqVars>>

\* The process is restarted: a new CostTracker is constructed from the
\* file.  When the construction raises there is no new tracker, and the
\* fields stay those of the tracker there was.
Restart ==
    /\ ledger' = IF LoadRaises THEN ledger ELSE LedgerLoaded
    /\ ledgerOp' = [op |-> "restart", provider |-> "none", cost |-> 0,
                    raised |-> LoadRaises, before |-> ledger.total_cost,
                    prev |-> ledger]
    /\ UNCHANGED <<costsFile, cacheVars, lastOp, routerVars, auxVars, reqVars>>

LedgerNext ==
    \/ RecordAnalysis
    \/ RecordChat
    \/ RecordImageGeneration
    \/ RecordCacheHit
    \/ Reset
    \/ Restart

-----------------------------------------------------------------------------
(* The ledger in floating point as a component: any caller, any operation *)

\* Models and token counts recorded in the float ledger: the dearest and
\* the cheapest listed model and one that is not listed, and token counts
\* whose thousandth is and is not a float
TrackerModels == {"gemini-3-pro-preview", "gemini-1.5-flash", "llama-2-7b"}

TrackerTokens == {0, 120, 1000}

\* monthly_budget arguments of get_budget_status and is_budget_exceeded:
\* 0.0, 0.05, 0.15 and the default of 5.0
BudgetLimits == {Zero, Float005, Float015, IntFloat(5)}

\* The costs.json an earlier run of the process left behind: after 137
\* local analyses, which cost nothing, and 23 cache hits; after two
\* analyses at the default price, 0.05 + 0.05 dollars; or after 48 analyses
\* of 1000 tokens each by gemini-3-pro-preview, 6.0 dollars
EarlierRuns ==
    {[total_cost |-> Zero, breakdown |-> [k \in {"analysis_local_llm"} |-> Zero],
      api_calls |-> 137, cache_hits |-> 23],
     [total_cost |-> FloatAdd(Float005, Float005),
      breakdown |-> [k \in {"analysis_gemini"} |-> FloatAdd(Float005, Float005)],
      api_calls |-> 2, cache_hits |-> 0],
     [total_cost |-> IntFloat(6),
      breakdown |-> [k \in {"analysis_gemini"} |-> IntFloat(6)],
      api_calls |-> 48, cache_hits |-> 0]}

\* CostTracker.__init__ of a process that finds the costs.json of an
\* earlier run
TrackerLoad ==
    \E data \in EarlierRuns :
        /\ tracker = NoTracker
        /\ tracker' = [mem |-> data,
                       file |-> [exists |-> TRUE, readable |-> TRUE, data |-> data],
                       records |-> data.api_calls, calls |-> 0, last |-> NothingReturned]
        /\ UNCHANGED <<cacheVars, ledgerVars, obsVars, routerVars, reqVars, svc, vid, pool>>

\* get_budget_status(monthly_budget)
TrackerGetBudgetStatus ==
    \E monthly_budget \in BudgetLimits :
        /\ tracker' = [tracker EXCEPT !.last =
                          [op |-> "budget_status", budget |-> monthly_budget,
                           result |-> BudgetStatus(tracker.mem.total_cost,
                                                   monthly_budget)]]
        /\ UNCHANGED <<cacheVars, ledgerVars, obsVars, routerVars, reqVars, svc, vid, pool>>

\* is_budget_exceeded(monthly_budget)
TrackerIsBudgetExceeded ==
    \E monthly_budget \in BudgetLimits :
        /\ tracker' = [tracker EXCEPT !.last =
                          [op |-> "is_budget_exceeded", budget |-> monthly_budget,
                           result |-> [exceeded |->
                               IsBudgetExceeded(tracker.mem.total_cost,
                                                monthly_budget)]]]
        /\ UNCHANGED <<cacheVars, ledgerVars, obsVars, routerVars, reqVars, svc, vid, pool>>

\* get_report()
TrackerGetReport ==
    /\ tracker' = [tracker EXCEPT !.last =
                      [op |-> "report", budget |-> Zero,
                       result |-> CostReport(tracker.mem)]]
    /\ UNCHANGED <<cacheVars, ledgerVars, obsVars, routerVars, reqVars, svc, vid, pool>>

TrackerRecordAnalysis(outcomes, most) ==
    \E p \in Providers, m \in TrackerModels, t \in TrackerTokens, io \in outcomes :
        /\ tracker.calls < most
        /\ DoTracker(TrackerAfterRecord("analysis_" \o p, FloatAnalysisCost(p, m, t)),
                     io, tracker.records + 1)
        /\ UNCHANGED <<cacheVars, ledgerVars, obsVars, routerVars, reqVars, svc, vid, pool>>

TrackerRecordChat(outcomes, most) ==
    \E p \in Providers, t \in TrackerTokens, io \in outcomes :
        /\ tracker.calls < most
        /\ DoTracker(TrackerAfterRecord("chat_" \o p, FloatChatCost(p, t)),
                     io, tracker.records + 1)
        /\ UNCHANGED <<cacheVars, ledgerVars, obsVars, routerVars, reqVars, svc, vid, pool>>

TrackerRecordImageGeneration(outcomes, most) ==
    \E m \in ImageModels, io \in outcomes :
        /\ tracker.calls < most
        /\ DoTracker(TrackerAfterRecord("image_generation", FloatImageCost(m)),
                     io, tracker.records + 1)
        /\ UNCHANGED <<cacheVars, ledgerVars, obsVars, routerVars, reqVars, svc, vid, pool>>

TrackerRecordCacheHit(outcomes, most) ==
    \E io \in outcomes :
        /\ tracker.calls < most
        /\ DoTracker([tracker.mem EXCEPT !.cache_hits = @ + 1], io, tracker.records)
        /\ UNCHANGED <<cacheVars, ledgerVars, obsVars, routerVars, reqVars, svc, vid, pool>>

TrackerReset(outcomes, most) ==
    \E io \in outcomes :
        /\ tracker.calls < most
        /\ DoTracker(TrackerZero, io, 0)
        /\ UNCHANGED <<cacheVars, ledgerVars, obsVars, routerVars, reqVars, svc, vid, pool>>

\* The calls that change the ledger, with every outcome of _save
TrackerNext ==
    \/ TrackerRecordAnalysis(SaveOutcomes, MaxTrackerCalls)
    \/ TrackerRecordChat(SaveOutcomes, MaxTrackerCalls)
    \/ TrackerRecordImageGeneration(SaveOutcomes, MaxTrackerCalls)
    \/ TrackerRecordCacheHit(SaveOutcomes, MaxTrackerCalls)
    \/ TrackerReset(SaveOutcomes, MaxTrackerCalls)

\* The ledger of a process that may have found the costs.json of an earlier
\* run, its saves succeeding, with the reports and the budget checks
ReportNext ==
    \/ TrackerLoad
    \/ TrackerRecordAnalysis({"ok"}, MaxReportCalls)
    \/ TrackerRecordChat({"ok"}, MaxReportCalls)
    \/ TrackerRecordImageGeneration({"ok"}, MaxReportCalls)
    \/ TrackerRecordCacheHit({"ok"}, MaxReportCalls)
    \/ TrackerReset({"ok"}, MaxReportCalls)
    \/ TrackerGetBudgetStatus
    \/ TrackerIsBudgetExceeded
    \/ TrackerGetReport

-----------------------------------------------------------------------------
(* Specifications *)

Next ==
    \/ Tick
    \/ ClearCache
    \/ \E r \in SeqReqs : AnalyzeStart(r)
    \/ \E r \in SeqReqs : ExtractDone(r)
    \/ \E r \in SeqReqs : PollStep(r)
    \/ \E r \in SeqReqs : LocalDone(r)

\* Analyze requests of several clients, in flight at the same time
RaceNext ==
    \/ \E r \in Reqs : AnalyzeStart(r)
    \/ \E r \in Reqs : ExtractDone(r)
    \/ \E r \in Reqs : PollStep(r)
    \/ \E r \in Reqs : LocalDone(r)

\* The application serving one client that sends analyze requests one after
\* another, with the cache-clear endpoint and the clock.
Spec == Init /\ [][Next]_vars

\* One client's analyze requests, one after another
LiveNext ==
    \/ \E r \in SeqReqs : AnalyzeStart(r)
    \/ \E r \in SeqReqs : ExtractDone(r)
    \/ \E r \in SeqReqs : PollStep(r)
    \/ \E r \in SeqReqs : LocalDone(r)

\* The worker pool finishes every extraction and every local completion it
\* was handed, and the provider-side state of every uploaded file eventually
\* is no longer reported as PROCESSING (a PollStep that changes the request).
Fairness ==
    \A r \in SeqReqs :
        /\ WF_vars(ExtractDone(r))
        /\ WF_vars(PollStep(r))
        /\ WF_vars(LocalDone(r))

\* The analyze requests of one client under these assumptions.
SpecLive == Init /\ [][LiveNext]_vars /\ Fairness

\* The application serving concurrent analyze requests.
SpecRace == Init /\ [][RaceNext]_vars

\* The chat, image and cost-reset endpoints
ApiNext == ChatRequest \/ ChatLocalDone \/ GenerateImage \/ ResetCosts

SpecApi == Init /\ [][ApiNext]_vars

\* The worker pool on its own
PoolNext ==
    \/ \E call \in PoolCalls : PoolSubmit(call)
    \/ PoolStart
    \/ \E t \in Tasks : PoolFinish(t)

\* An idle worker of the executor takes queued work, and every running
\* extraction finishes; a preprocessing run (ffmpeg on the uploaded file)
\* may run for any time
PoolFairness == WF_vars(PoolStart) /\ \A t \in Tasks : WF_vars(ExtractionFinish(t))

SpecPool == ComponentInit /\ [][PoolNext]_vars /\ PoolFairness

\* The video processor on its own
VideoNext == ExtractFeatures \/ DetectScenesCall

SpecVideo == ComponentInit /\ [][VideoNext]_vars

\* The cache on its own.
SpecCache == ComponentInit /\ [][CacheNext]_vars

\* The ledger on its own.
SpecLedger == ComponentInit /\ [][LedgerNext]_vars

\* The ledger on its own, with its costs as the floats the code adds up
SpecTracker == ComponentInit /\ [][TrackerNext]_vars

\* The ledger in floating point with its reports
SpecReport == ComponentInit /\ [][ReportNext]_vars

-----------------------------------------------------------------------------
(* Properties of the analyze request, checked under Spec *)

\* The request has been answered
Terminal(r) == req[r].pc \in {"done", "failed"}

\* ai_router.analyze_video has been called for the request
RouterCalled(r) ==
    /\ req[r].extracted
    /\ req[r].pc # "extracting"
    /\ req[r].response.detail \notin ExtractionFailures

Made(r, call) == \E i \in 1..Len(req[r].calls) : req[r].calls[i] = call

CloudFailures ==
    {"upload_file failed", "get_file failed", "Gemini video processing failed",
     "generate_content failed", "response is not valid JSON"}

LocalFailures == {"create_chat_completion failed", "response is not valid JSON"}

\* C1: idempotence of analyze.  A request with use_cache=true that finds
\* the analysis of the same bytes stored by an earlier successful request,
\* less than 7 days old and neither deleted nor cleared, takes the cache-hit
\* branch, makes no provider call and runs no feature extraction.
C1_SecondRequestIsCacheHit ==
    \A r \in Reqs :
        (req[r].use_cache /\ req[r].prior) =>
            /\ req[r].cached
            /\ req[r].calls = <<>>
            /\ ~req[r].extracted

\* A second request has been answered from the cache.
C1_Witness ==
    \E r \in Reqs :
        /\ req[r].prior
        /\ req[r].cached
        /\ req[r].pc = "done"
        /\ req[r].response.cached
        /\ arrivals = 2

\* C2: routing scenario (a).  With force_local=true or the cloud provider
\* unavailable, and the local model available, the router calls the local
\* model only (no upload, no generate) and a result is tagged local_llm.
C2_LocalWhenForcedOrCloudDown ==
    \A r \in Reqs :
        (/\ RouterCalled(r)
         /\ local_llm_available
         /\ req[r].force_local \/ ~gemini_available) =>
            /\ req[r].calls = <<"local_llm">>
            /\ req[r].router.error # "No AI provider available"
            /\ req[r].router.status = "ok" =>
                   req[r].router.provider = "local_llm"

\* A forced-local request has been served by the local model although the
\* cloud provider was available.
C2_Witness ==
    \E r \in Reqs :
        /\ req[r].force_local
        /\ gemini_available
        /\ local_llm_available
        /\ req[r].pc = "done"
        /\ req[r].router.provider = "local_llm"
        /\ req[r].calls = <<"local_llm">>

\* C3: routing scenario (b).  With the local model unavailable and either
\* force_local=true or the cloud provider unavailable, the router raises
\* "No AI provider available" and makes no provider call.
C3_UnavailableRaisesWithoutCall ==
    \A r \in Reqs :
        (/\ RouterCalled(r)
         /\ ~local_llm_available
         /\ req[r].force_local \/ ~gemini_available) =>
            /\ req[r].router.status = "raised"
            /\ req[r].router.error = "No AI provider available"
            /\ req[r].calls = <<>>
            /\ req[r].response.status = 500

\* A forced-local request has failed for want of a provider although the
\* cloud provider was available.
C3_Witness ==
    \E r \in Reqs :
        /\ RouterCalled(r)
        /\ req[r].force_local
        /\ gemini_available
        /\ ~local_llm_available
        /\ req[r].router.error = "No AI provider available"

\* C4: routing scenario (c).  With force_local=false and the cloud provider
\* available, the first provider call is the cloud upload, and when the
\* cloud call succeeds the result is tagged gemini / gemini-1.5-flash and
\* the local model has not been called.
C4_CloudFirst ==
    \A r \in Reqs :
        (RouterCalled(r) /\ ~req[r].force_local /\ gemini_available) =>
            /\ req[r].calls # <<>>
            /\ Head(req[r].calls) = "upload"
            /\ (req[r].router.status = "ok" /\ ~req[r].cloudFailed) =>
                   /\ req[r].router.provider = "gemini"
                   /\ req[r].router.model = "gemini-1.5-flash"
                   /\ ~Made(r, "local_llm")

\* A request has been served by the cloud provider while the local model
\* was loaded.
C4_Witness ==
    \E r \in Reqs :
        /\ ~req[r].force_local
        /\ gemini_available
        /\ local_llm_available
        /\ req[r].pc = "done"
        /\ req[r].router.provider = "gemini"
        /\ req[r].calls = <<"upload", "generate">>

\* C5 as stated: once the cloud call has failed and the request has been
\* answered, with the local model available the router has returned a
\* local result and nothing was raised; with the local model unavailable
\* the cloud failure was raised.
C5_FallbackNeverSurfaces ==
    \A r \in Reqs :
        (req[r].cloudFailed /\ Terminal(r)) =>
            IF local_llm_available
            THEN /\ req[r].router.status = "ok"
                 /\ req[r].router.provider = "local_llm"
            ELSE /\ req[r].router.status = "raised"
                 /\ req[r].router.error \in CloudFailures

\* C5, amended: once the cloud call has failed at any step, with the local
\* model available the local model is called next; if that call succeeds
\* the result is tagged local_llm, and if it fails the local failure is
\* raised to the caller.  With the local model unavailable the cloud
\* failure is raised to the caller and the local model is not called.
C5_FallbackToLocal ==
    \A r \in Reqs :
        req[r].cloudFailed =>
            IF local_llm_available
            THEN /\ req[r].calls[Len(req[r].calls)] = "local_llm"
                 /\ Terminal(r) => req[r].router.status \in {"ok", "raised"}
                 /\ req[r].router.status = "ok" =>
                        req[r].router.provider = "local_llm"
                 /\ req[r].router.status = "raised" =>
                        req[r].router.error \in LocalFailures
            ELSE /\ req[r].router.status = "raised"
                 /\ req[r].router.error \in CloudFailures
                 /\ req[r].response.status = 500
                 /\ ~Made(r, "local_llm")

\* The cloud call has failed after the upload and the generation, and the
\* request has been served by the local model.
C5_Witness ==
    \E r \in Reqs :
        /\ req[r].cloudFailed
        /\ req[r].calls = <<"upload", "generate", "local_llm">>
        /\ req[r].pc = "done"
        /\ req[r].router.provider = "local_llm"
        /\ req[r].response.status = 200

\* C10: cache I/O failure is never fatal.  On a failing store get returns
\* None and set returns False without storing, and neither raises; a request
\* whose cache read failed goes on to feature extraction and, when answered
\* 200, carries the provider's analysis; a request whose cache write failed
\* is answered 200 with the provider's analysis.
C10_CacheFailureNotFatal ==
    /\ \A k \in Keys :
           /\ ~GetReturn(k, "fail").raised
           /\ GetReturn(k, "fail").value = None
           /\ CacheAfterSet(k, FullAnalysis, SomeTTL(AnalysisTTL), "fail") = cache
    /\ ~SetReturn("fail").raised
    /\ ~SetReturn("fail").ok
    /\ \A r \in Reqs :
           /\ req[r].getIo = "fail" =>
                  /\ ~req[r].cached
                  /\ req[r].extracted
                  /\ req[r].response.detail # "cache get failed"
                  /\ req[r].pc = "done" =>
                         /\ req[r].response.status = 200
                         /\ req[r].response.analysis = req[r].router.analysis
           /\ req[r].setIo = "fail" =>
                  /\ req[r].pc = "done"
                  /\ req[r].response.status = 200
                  /\ ~req[r].response.cached
                  /\ req[r].response.analysis = req[r].router.analysis
                  /\ req[r].response.provider = req[r].router.provider

\* A request whose cache read and cache write both failed has been answered
\* with the provider's analysis.
C10_Witness ==
    \E r \in Reqs :
        /\ req[r].getIo = "fail"
        /\ req[r].setIo = "fail"
        /\ req[r].pc = "done"
        /\ req[r].response.status = 200
        /\ req[r].response.analysis = FullAnalysis

-----------------------------------------------------------------------------
(* Properties of the cache component, checked under SpecCache *)

\* The get that has just returned read a working store and follows a set of
\* the same key that succeeded and was neither deleted nor cleared since.
GetAfterSet ==
    /\ lastOp.op = "get"
    /\ lastOp.io = "ok"
    /\ setLog[lastOp.key].set

\* C8: TTL expiry.  After set(key, value, ttl) with a TTL, a get before the
\* TTL has elapsed returns the stored value unchanged and a get once it has
\* elapsed returns absent; an entry set with no TTL is returned by every
\* later get until it is deleted or the cache is cleared.
C8_TTLExpiry ==
    GetAfterSet =>
        LET s == setLog[lastOp.key] IN
        IF s.ttl.given
        THEN /\ (lastOp.at < s.at + s.ttl.secs) => (lastOp.value = s.value)
             /\ (lastOp.at >= s.at + s.ttl.secs) => (lastOp.value = None)
        ELSE lastOp.value = s.value

\* C9: cache counters.  After any sequence of operations hits + misses is
\* the number of get calls and sets is the number of set calls.
C9_CountersCountEveryCall ==
    /\ stats.hits + stats.misses = getCalls
    /\ stats.sets = setCalls

\* C28: cache durability across restart.  After a restart the hit, miss
\* and set counters are 0, and a get of an entry that was set by an earlier
\* process, has not expired and has not been deleted or cleared since
\* returns the value that was set.
C28_EntriesSurviveRestart ==
    /\ lastOp.op = "restart" => stats = [hits |-> 0, misses |-> 0, sets |-> 0]
    /\ (GetAfterSet /\ setCalls = 0) =>
           LET s == setLog[lastOp.key] IN
           (~s.ttl.given \/ lastOp.at < s.at + s.ttl.secs) =>
               lastOp.value = s.value

\* After a restart and a clock advance, the first get of the new process
\* has returned an analysis stored by the old one: one hit, no set.
C28_Witness ==
    /\ lastOp.op = "get"
    /\ setLog[lastOp.key].set
    /\ setLog[lastOp.key].at < lastOp.at
    /\ lastOp.value = FullAnalysis
    /\ stats = [hits |-> 1, misses |-> 0, sets |-> 0]
    /\ setCalls = 0

-----------------------------------------------------------------------------
(* Properties of the ledger component, checked under SpecLedger *)

\* C6: ledger monotonicity.  total_cost after every record operation
\* (analysis, chat, image generation, cache hit) is greater than or equal to
\* total_cost before it.
C6_TotalCostMonotone ==
    ledgerOp.op \in {"analysis", "chat", "image_generation", "cache_hit"} =>
        ledger.total_cost >= ledgerOp.before

\* A record operation with a positive cost has been added to a positive
\* total.
C6_Witness ==
    /\ ledgerOp.op \in {"analysis", "chat", "image_generation"}
    /\ ledgerOp.before > 0
    /\ ledgerOp.cost > 0
    /\ ledger.total_cost = ledgerOp.before + ledgerOp.cost

\* C7: ledger reset.  When reset() has returned, total_cost = 0, breakdown
\* is empty, api_calls = 0 and cache_hits = 0, in memory and in the
\* persisted file.
C7_ResetClearsLedger ==
    (ledgerOp.op = "reset" /\ ~ledgerOp.raised) =>
        /\ ledger.total_cost = 0
        /\ DOMAIN ledger.breakdown = {}
        /\ ledger.api_calls = 0
        /\ ledger.cache_hits = 0
        /\ costsFile.exists
        /\ costsFile.readable
        /\ costsFile.data.total_cost = 0
        /\ DOMAIN costsFile.data.breakdown = {}
        /\ costsFile.data.api_calls = 0
        /\ costsFile.data.cache_hits = 0

\* reset() has returned in a ledger that held costs.
C7_Witness ==
    /\ ledgerOp.op = "reset"
    /\ ~ledgerOp.raised
    /\ ledgerOp.before > 0

\* The breakdown bucket "<operation>_<provider>" of the last recorded
\* operation
OpBucket == ledgerOp.op \o "_" \o ledgerOp.provider

\* C16: ledger accumulation.  Every recorded operation (analysis, chat,
\* image generation) adds its cost to total_cost and to the breakdown bucket
\* "<operation>_<provider>", leaves every other bucket unchanged, and
\* increments api_calls by one.
C16_CostGoesToOperationProviderBucket ==
    ledgerOp.op \in {"analysis", "chat", "image_generation"} =>
        /\ ledger.total_cost = ledgerOp.prev.total_cost + ledgerOp.cost
        /\ ledger.api_calls = ledgerOp.prev.api_calls + 1
        /\ OpBucket \in DOMAIN ledger.breakdown
        /\ ledger.breakdown[OpBucket] =
               BreakdownGet(ledgerOp.prev.breakdown, OpBucket) + ledgerOp.cost
        /\ \A k \in (DOMAIN ledger.breakdown) \ {OpBucket} :
               /\ k \in DOMAIN ledgerOp.prev.breakdown
               /\ ledger.breakdown[k] = ledgerOp.prev.breakdown[k]

\* An analysis and a chat have been recorded into their own buckets.
C16_Witness ==
    /\ ledgerOp.op = "chat"
    /\ ledgerOp.provider = "gemini"
    /\ ledgerOp.cost > 0
    /\ DOMAIN ledger.breakdown = {"analysis_gemini", "chat_gemini"}
    /\ ledger.breakdown["chat_gemini"] = ledgerOp.cost
    /\ ledger.total_cost = ledger.breakdown["analysis_gemini"] + ledgerOp.cost

\* After every ledger mutation that has returned (a record operation,
\* record_cache_hit, reset) the persisted state equals the state in memory.
MutationPersisted ==
    (/\ ledgerOp.op \in {"analysis", "chat", "image_generation",
                         "cache_hit", "reset"}
     /\ ~ledgerOp.raised) =>
        /\ costsFile.exists
        /\ costsFile.readable
        /\ costsFile.data = ledger

\* A restarted process constructs its ledger, and the ledger holds the
\* state of the last save that succeeded (zeros when there was none).
RestartLoadsPersisted ==
    ledgerOp.op = "restart" =>
        /\ ~ledgerOp.raised
        /\ ledger = IF costsFile.exists THEN costsFile.data ELSE LedgerAfterReset

\* C17: ledger durability.  After every ledger mutation that has returned
\* (a record operation, record_cache_hit, reset) the persisted state equals
\* the state in memory, and a ledger constructed after a restart holds
\* exactly the state persisted by the last completed mutation.
C17_PersistedSurvivesRestart ==
    /\ MutationPersisted
    /\ RestartLoadsPersisted

\* A process that had recorded costs is restarted after a mutation whose
\* write failed: costs.json is not a JSON document and the constructor
\* raises, so the costs persisted before are lost.
C17_Witness ==
    /\ ledgerOp.op = "restart"
    /\ ledgerOp.raised
    /\ costsFile.exists
    /\ ~costsFile.readable
    /\ ledgerOp.prev.api_calls >= 2
    /\ ledgerOp.prev.total_cost > 0

\* C18: the local model is priced at zero and still recorded.  An analysis
\* or a chat recorded for local_llm costs 0 and leaves total_cost unchanged,
\* while api_calls is incremented by one and the local bucket exists.
C18_LocalIsFreeButRecorded ==
    (ledgerOp.op \in {"analysis", "chat"} /\ ledgerOp.provider = "local_llm") =>
        /\ ledgerOp.cost = 0
        /\ ledger.total_cost = ledgerOp.prev.total_cost
        /\ ledger.api_calls = ledgerOp.prev.api_calls + 1
        /\ OpBucket \in DOMAIN ledger.breakdown
        /\ ledger.breakdown[OpBucket] = BreakdownGet(ledgerOp.prev.breakdown, OpBucket)

\* A local analysis has been recorded in a ledger that already held costs.
C18_Witness ==
    /\ ledgerOp.op = "analysis"
    /\ ledgerOp.provider = "local_llm"
    /\ ledgerOp.prev.total_cost > 0
    /\ ledger.total_cost = ledgerOp.prev.total_cost
    /\ ledger.api_calls = 2
    /\ "analysis_local_llm" \in DOMAIN ledger.breakdown

(* The reports of the ledger, checked under SpecReport *)

\* The whole part of bits * 2^e
WholePart(bits, e) ==
    IF e >= 0 THEN Zeros(e) \o bits
    ELSE IF -e >= Len(bits) THEN <<>>
    ELSE SubSeq(bits, 1 - e, Len(bits))

\* n / 100 as a float
Hundredths(n) == FloatDiv(IntFloat(n), Float100)

\* | bits * 2^e - n | <= 1/2, all taken twice and in units of 2^e
WithinHalf(bits, e, n) ==
    LET up == IF e > 0 THEN e ELSE 0
        down == IF e < 0 THEN -e ELSE 0
        a == StripLimbs(Limbs(Zeros(up + 1) \o bits))
        b == StripLimbs(Limbs(Zeros(down + 1) \o NatBits(n)))
        half == Limbs(Zeros(down) \o <<1>>)
        gap == IF LimbsLess(a, b) THEN LimbsSub(b, a, 0) ELSE LimbsSub(a, b, 0)
    IN ~LimbsLess(half, StripLimbs(gap))

\* r is the float d rounded to two decimals: a whole number of hundredths
\* with the sign of d that is no more than half a hundredth away from d
RoundedToCents(r, d) ==
    LET scaled == LimbsBits(LimbsMul(Limbs(d.m), <<100>>))
        below == BitsNat(WholePart(scaled, d.e))
    IN \E n \in {below, below + 1} :
          /\ r = Signed(d.neg, Hundredths(n))
          /\ WithinHalf(scaled, d.e, n)

\* The call that returned tracker.last found this total_cost: a report
\* changes no field, and every other call replaces tracker.last
TotalCost == tracker.mem.total_cost

\* A step that returns a report changes neither the fields of the tracker
\* nor costs.json
ReportChangesNothing ==
    tracker'.last.op \in {"budget_status", "report"} =>
        /\ tracker'.mem = tracker.mem
        /\ tracker'.file = tracker.file
        /\ tracker'.records = tracker.records

\* With one of the budgets exceeded, every record operation and the analyze
\* request are still accepted
ExceededBlocksNothing ==
    ((\E m \in BudgetLimits : IsBudgetExceeded(TotalCost, m))
        /\ tracker.calls < MaxReportCalls) =>
           /\ ENABLED TrackerRecordAnalysis({"ok"}, MaxReportCalls)
           /\ ENABLED TrackerRecordChat({"ok"}, MaxReportCalls)
           /\ ENABLED TrackerRecordImageGeneration({"ok"}, MaxReportCalls)
           /\ ENABLED TrackerRecordCacheHit({"ok"}, MaxReportCalls)
           /\ \A r \in Reqs : ENABLED AnalyzeStart(r)

\* exceeded is reported exactly when total_cost > limit, and total_cost 6.0
\* against limit 5.0 is reported exceeded with remaining -1.0
ExceededIsTotalAboveLimit ==
    tracker.last.op = "budget_status" =>
        /\ tracker.last.result.exceeded = FloatLess(tracker.last.budget, TotalCost)
        /\ (TotalCost = IntFloat(6) /\ tracker.last.budget = IntFloat(5)) =>
               /\ tracker.last.result.exceeded
               /\ tracker.last.result.remaining = Signed(TRUE, IntFloat(1))

\* C19 as stated: budget_status(limit) returns remaining = limit - total_cost
\* and exceeded exactly when total_cost > limit, changes nothing, and blocks
\* nothing.
C19_RemainingIsLimitMinusTotal ==
    /\ [](/\ ExceededIsTotalAboveLimit
          /\ ExceededBlocksNothing
          /\ tracker.last.op = "budget_status" =>
                tracker.last.result.remaining = FloatSub(tracker.last.budget, TotalCost))
    /\ [][ReportChangesNothing]_vars

\* C19, amended: budget_status(limit) returns limit - total_cost rounded to
\* two decimals as remaining, and exceeded exactly when total_cost > limit;
\* it changes nothing in the ledger, and an exceeded budget blocks no record
\* operation and no analyze request.
C19_RemainingIsRounded ==
    /\ [](/\ ExceededIsTotalAboveLimit
          /\ ExceededBlocksNothing
          /\ tracker.last.op = "budget_status" =>
                RoundedToCents(tracker.last.result.remaining,
                               FloatSub(tracker.last.budget, TotalCost)))
    /\ [][ReportChangesNothing]_vars

\* A budget of 0.05 against a total_cost of 0.125: the budget is reported
\* exceeded and the remaining amount is -0.07, not 0.05 - 0.125.
C19_Witness ==
    /\ tracker.last.op = "budget_status"
    /\ tracker.last.budget = Float005
    /\ TotalCost = Float0125
    /\ tracker.last.result.exceeded
    /\ tracker.last.result.remaining = Signed(TRUE, Hundredths(7))
    /\ tracker.last.result.remaining # FloatSub(Float005, Float0125)

\* costs_saved is cache_hits times the constant average analysis cost
CostsSaved == FloatMul(IntFloat(tracker.mem.cache_hits), avg_analysis_cost)

\* C29 as stated: report() returns costs_saved = cache_hits times the
\* constant average analysis cost and net_cost = total_cost - costs_saved,
\* and leaves the ledger unchanged.
C29_NetCostIsTotalMinusSaved ==
    /\ [](tracker.last.op = "report" =>
             /\ tracker.last.result.costs_saved = Positive(CostsSaved)
             /\ tracker.last.result.net_cost = FloatSub(TotalCost, CostsSaved))
    /\ [][ReportChangesNothing]_vars

\* C29, amended: report() returns costs_saved = cache_hits times the
\* constant average analysis cost and, as net_cost, total_cost - costs_saved
\* rounded to two decimals, computed from the current ledger, which it
\* leaves unchanged.
C29_NetCostIsRounded ==
    /\ [](tracker.last.op = "report" =>
             /\ tracker.last.result.costs_saved = Positive(CostsSaved)
             /\ tracker.last.result.cache_hits = tracker.mem.cache_hits
             /\ RoundedToCents(tracker.last.result.net_cost,
                               FloatSub(TotalCost, CostsSaved)))
    /\ [][ReportChangesNothing]_vars

\* A report on a total_cost of 0.015 with one cache hit: the net cost is
\* -1.99, not 0.015 - 2.0.
C29_Witness ==
    /\ tracker.last.op = "report"
    /\ tracker.mem.cache_hits = 1
    /\ TotalCost = TokensTimes(120, Float0125)
    /\ tracker.last.result.costs_saved = Positive(IntFloat(2))
    /\ tracker.last.result.net_cost = Signed(TRUE, Hundredths(199))
    /\ tracker.last.result.net_cost # FloatSub(TotalCost, IntFloat(2))

-----------------------------------------------------------------------------
(* Properties of the router and of concurrent requests *)

\* C11: parse degradation is not an error.  For either provider no provider
\* call fails in response parsing, and a result always carries either the
\* structured payload or the minimal substitute (summary and timeline).
C11_ParseNeverFailsTheCall ==
    \A r \in Reqs :
        /\ req[r].router.error # "response is not valid JSON"
        /\ req[r].router.status = "ok" =>
               req[r].router.analysis.keys = {"summary", "timeline"}

\* A response without any JSON object has been degraded to the minimal
\* analysis.
C11_Witness ==
    \E r \in Reqs :
        /\ req[r].pc = "done"
        /\ req[r].router.analysis.form = "gemini_fallback"
        /\ req[r].router.analysis.text = <<"x">>

\* C12: cloud path protocol order.  The upload is the first call and
\* generation the second; generation is submitted only after the file has
\* been seen ACTIVE, never while it is PROCESSING and never for a FAILED
\* file; a FAILED file fails the cloud call only: with the local model
\* available the next call is the local one.
C12_CloudProtocolOrder ==
    \A r \in Reqs :
        /\ Made(r, "generate") =>
               /\ Len(req[r].calls) >= 2
               /\ req[r].calls[1] = "upload"
               /\ req[r].calls[2] = "generate"
               /\ req[r].fileState = "ACTIVE"
        /\ req[r].pc = "polling" =>
               /\ req[r].calls = <<"upload">>
               /\ req[r].fileState = "PROCESSING"
        /\ req[r].fileState = "FAILED" =>
               /\ req[r].cloudFailed
               /\ ~Made(r, "generate")
               /\ IF local_llm_available
                  THEN /\ req[r].calls = <<"upload", "local_llm">>
                       /\ req[r].router.error # "Gemini video processing failed"
                  ELSE /\ req[r].calls = <<"upload">>
                       /\ req[r].router.error = "Gemini video processing failed"

\* The uploaded file has FAILED and the request has been served by the local
\* model without any generation.
C12_Witness ==
    \E r \in Reqs :
        /\ req[r].fileState = "FAILED"
        /\ req[r].calls = <<"upload", "local_llm">>
        /\ req[r].pc = "done"
        /\ req[r].router.provider = "local_llm"

\* The request is waiting for the worker pool or for the provider
InFlight(r) == req[r].pc \in {"extracting", "polling", "local_llm"}

\* A request leaves the polling loop only on news from the provider: a state
\* other than PROCESSING, or a get_file call that raised.  Nothing else (no
\* count of polls, no deadline) ends the loop or starts the fallback.
LeavesPollingOnlyOnNews ==
    \A r \in SeqReqs :
        (req[r].pc = "polling" /\ req'[r] # req[r]) =>
            /\ req'[r].pc # "polling"
            /\ \/ req'[r].fileState \in {"ACTIVE", "FAILED"}
               \/ req'[r].fileState = "PROCESSING" /\ req'[r].cloudFailed

\* C13: the polling loop is unbounded.  A request in the polling loop stays
\* there, without fallback, for as long as the file is reported PROCESSING;
\* if every uploaded file eventually stops being reported PROCESSING, every
\* analyze request in flight is eventually answered.
C13_TerminatesIfProcessingEnds ==
    /\ [][LeavesPollingOnlyOnNews]_vars
    /\ \A r \in SeqReqs : InFlight(r) ~> Terminal(r)

\* A request is in the polling loop: uploaded, the file PROCESSING, nothing
\* else called.
C13_Witness ==
    \E r \in SeqReqs :
        /\ req[r].pc = "polling"
        /\ req[r].fileState = "PROCESSING"
        /\ req[r].calls = <<"upload">>
        /\ ~req[r].cloudFailed

\* Two requests for the same bytes have both been answered after a provider
\* call and a successful cache write, and no other request was received.
TwoStoredSameContent ==
    /\ arrivals = 2
    /\ req[1].pc = "done"
    /\ req[2].pc = "done"
    /\ req[1].content = req[2].content
    /\ req[1].setIo = "ok"
    /\ req[2].setIo = "ok"

\* C14: cold-key race.  Whatever the interleaving of two requests for the
\* same bytes, the cache afterwards holds one entry, under the fingerprint
\* of the bytes, with the analysis of one of the two.
C14_OneEntryPerFingerprint ==
    TwoStoredSameContent =>
        LET k == <<"analysis:", Sha256Hex(req[1].content)>> IN
        /\ {j \in Keys : cache[j].present} = {k}
        /\ cache[k].value \in {req[1].router.analysis, req[2].router.analysis}
        /\ stats.sets = 2

\* Two requests with use_cache=true for the same never-before-seen bytes
\* have both missed the cache and both run feature extraction and a
\* provider call; the cache holds one entry.
C14_Witness ==
    /\ TwoStoredSameContent
    /\ \A r \in Reqs :
           /\ req[r].use_cache
           /\ req[r].getIo = "ok"
           /\ ~req[r].cached
           /\ req[r].extracted
           /\ req[r].calls # <<>>
           /\ req[r].router.analysis = FullAnalysis
    /\ stats.misses = 2
    /\ stats.sets = 2
    /\ Cardinality({j \in Keys : cache[j].present}) = 1

\* The cost record_analysis computed for the request, 0 if it was not called
RecordedCost(r) ==
    IF req[r].router.status = "ok"
    THEN AnalysisCost(req[r].router.provider, req[r].router.model,
                      req[r].router.tokens)
    ELSE 0

\* The step is the arrival of a request in slot r that takes the
\* cache-hit branch
HitStep(r) == arrivals' = arrivals + 1 /\ req'[r].cached

\* C20: cache-hit path of analyze.  On a cache hit exactly one cache hit is
\* recorded in the ledger while total_cost, breakdown and api_calls are
\* unchanged, the cache is not written, no feature extraction or provider
\* call happens, and the answer carries the stored analysis.
C20_HitPathFrame ==
    [][\A r \in SeqReqs :
          HitStep(r) =>
              /\ ledger'.cache_hits = ledger.cache_hits + 1
              /\ ledger'.total_cost = ledger.total_cost
              /\ ledger'.breakdown = ledger.breakdown
              /\ ledger'.api_calls = ledger.api_calls
              /\ cache' = cache
              /\ setCalls' = setCalls
              /\ stats' = [stats EXCEPT !.hits = @ + 1]
              /\ req'[r].calls = <<>>
              /\ ~req'[r].extracted
              /\ req'[r].pc = "done" =>
                     /\ req'[r].response.status = 200
                     /\ req'[r].response.cached
                     /\ Live(cache[CacheKey(req'[r].content)])
                     /\ req'[r].response.analysis =
                            cache[CacheKey(req'[r].content)].value]_vars

\* A request has been answered from the cache after one provider call: one
\* API call and one cache hit are on the ledger.
C20_Witness ==
    \E r \in SeqReqs :
        /\ req[r].cached
        /\ req[r].pc = "done"
        /\ req[r].response.analysis = FullAnalysis
        /\ ledger.cache_hits = 1
        /\ ledger.api_calls = 1
        /\ ledger.total_cost > 0
        /\ stats.sets = 1

\* The FeatureSummary fields
FeatureFields == {"metadata", "audio", "frames", "scenes"}

\* The field of the FeatureSummary an item of data belongs to, "" for data
\* that is no part of it
FieldOf(item) ==
    IF item \in {"metadata.duration", "metadata.fps", "metadata.width",
                 "metadata.height"} THEN "metadata"
    ELSE IF item \in {"audio.tempo", "audio.avg_energy"} THEN "audio"
    ELSE IF item \in {"frames.count", "frames.brightness"} THEN "frames"
    ELSE IF item = "scenes.count" THEN "scenes"
    ELSE ""

\* C21: the local path never receives the raw media.  On every route, a
\* request that has called the local model has handed it only values read
\* from the FeatureSummary, never the bytes, the video path or the uploaded
\* file; a request that has not called it has handed it nothing.
C21_LocalNeverGivenRawMedia ==
    \A r \in Reqs :
        IF Made(r, "local_llm")
        THEN /\ req[r].given.local_llm # {}
             /\ req[r].given.local_llm \cap RawMedia = {}
             /\ \A item \in req[r].given.local_llm : FieldOf(item) \in FeatureFields
        ELSE req[r].given.local_llm = {}

\* A request whose cloud call was handed the video and failed has been
\* answered by the local model, next to a request that was forced local.
C21_Witness ==
    \E r, q \in Reqs :
        /\ req[r].pc = "done"
        /\ req[r].cloudFailed
        /\ "video_path" \in req[r].given.gemini
        /\ req[r].response.provider = "local_llm"
        /\ req[q].force_local
        /\ req[q].calls = <<"local_llm">>
        /\ req[q].pc = "done"

-----------------------------------------------------------------------------
(* Properties of the chat and image endpoints, checked under SpecApi *)

\* The answers of the chat endpoint follow the two-way branch
ChatAnswersFollowBranch ==
    svc.op = "chat" =>
        /\ (svc.use_local /\ local_llm_available) <=> svc.calls = <<"local_llm">>
        /\ (~(svc.use_local /\ local_llm_available) /\ gemini_available)
               <=> svc.calls = <<"gemini">>
        /\ (~(svc.use_local /\ local_llm_available) /\ ~gemini_available)
               <=> /\ svc.calls = <<>>
                   /\ svc.status = 500
                   /\ svc.detail = "No AI provider available for chat"
        /\ svc.status = 200 => svc.provider = svc.calls[1]
        /\ svc.detail = "chat call failed" => svc.status = 500 /\ Len(svc.calls) = 1

\* Every chat suspended at the local model asked for it, the local model
\* being available
SuspendedChatsAskedForLocal ==
    \A i \in 1..Len(svc.pending) :
        /\ svc.pending[i].use_local
        /\ local_llm_available
        /\ svc.pending[i].route = "local_llm"

\* A step that answers a failed provider call of a chat starts no other
\* provider call and records nothing, whatever was served while the call ran
FailedChatIsNotRetried ==
    (svc'.served = svc.served + 1 /\ svc'.detail = "chat call failed") =>
        /\ ledger' = ledger
        /\ costsFile' = costsFile
        /\ Len(svc'.pending) <= Len(svc.pending)

\* C22: chat routing is a two-way branch with no fallback.  A chat request
\* is sent to the local model exactly when use_local is set and the local
\* model is available, otherwise to the cloud when the cloud is available,
\* otherwise it fails without any provider call; at most one provider is
\* called, so a failed call is answered 500 with no second provider tried
\* and nothing recorded.
C22_ChatTwoWayBranch ==
    /\ [](ChatAnswersFollowBranch /\ SuspendedChatsAskedForLocal)
    /\ [][FailedChatIsNotRetried]_vars

\* A chat request without use_local has failed although the local model
\* is available, the cloud being unavailable, while a chat that asked for
\* the local model is suspended at it.
C22_Witness ==
    /\ svc.op = "chat"
    /\ ~svc.use_local
    /\ ~gemini_available
    /\ local_llm_available
    /\ svc.status = 500
    /\ svc.calls = <<>>
    /\ Len(svc.pending) = 1

\* C23: image generation has no local fallback.  With the cloud unavailable
\* an image request fails without any provider call, whatever use_local and
\* the local availability are, and the ledger and its file are as the
\* request found them; the local model is never called for an image.
C23_ImageNeedsCloud ==
    svc.op = "image" =>
        /\ ~gemini_available =>
               /\ svc.status = 500
               /\ svc.calls = <<>>
               /\ svc.detail = "Image generation requires Gemini API"
               /\ ledger = svc.prev
               /\ costsFile = svc.prevFile
        /\ \A i \in 1..Len(svc.calls) : svc.calls[i] # "local_llm"

\* An image request with use_local has failed with the local model
\* available, between the arrival and the completion of a local chat.
C23_Witness ==
    /\ svc.op = "image"
    /\ svc.use_local
    /\ local_llm_available
    /\ ~gemini_available
    /\ svc.status = 500
    /\ svc.served = 1
    /\ Len(svc.pending) = 1
    /\ ENABLED ChatLocalDone

-----------------------------------------------------------------------------
(* Properties of the video processor, checked under SpecVideo *)

Black == <<<<0, 0, 0>>, <<0, 0, 0>>>>

Grey50 == <<<<50, 50, 50>>, <<50, 50, 50>>>>

\* C24: feature extraction is fatal only when the container cannot be
\* opened.  extract_features raises exactly when cv2 cannot open the
\* container; when the audio cannot be extracted the call returns a
\* FeatureSummary whose audio is the error marker, with metadata, frames and
\* scenes present.
C24_FatalOnlyIfUnopenable ==
    vid.op = "extract_features" =>
        /\ vid.result.raised <=> ~vid.video.opens
        /\ (vid.video.opens /\ vid.extract_audio /\ vid.video.audio = "fail") =>
               /\ ~vid.result.raised
               /\ vid.result.features.audio.keys = {"error"}
               /\ {"metadata", "scenes"} \subseteq vid.result.features.keys
               /\ vid.sample_frames => "frames" \in vid.result.features.keys

\* The audio of an openable container could not be extracted and the call
\* returned the error marker next to a sampled frame and a scene cut.
C24_Witness ==
    /\ vid.op = "extract_features"
    /\ vid.video.opens
    /\ vid.video.audio = "fail"
    /\ vid.extract_audio
    /\ vid.sample_frames
    /\ ~vid.result.raised
    /\ vid.result.features.audio.keys = {"error"}
    /\ Len(vid.result.features.frames) >= 1
    /\ Len(vid.result.features.scenes) >= 1

\* C25: a zero frame rate is not an error.  For an openable container
\* extract_features returns a FeatureSummary, with duration 0 when fps = 0
\* whatever the frame count, and duration frame_count / fps when fps > 0.
C25_ZeroFpsIsNotAnError ==
    (vid.op = "extract_features" /\ vid.video.opens) =>
        /\ ~vid.result.raised
        /\ vid.result.features.metadata.duration =
               IF vid.video.fps = 0 THEN Ratio(0, 1)
               ELSE Ratio(vid.video.frame_count, vid.video.fps)

\* A container reporting fps = 0 and some frames, none of which could be
\* read at a sampled index, has been given duration 0.
C25_Witness ==
    /\ vid.op = "extract_features"
    /\ vid.video.opens
    /\ vid.video.fps = 0
    /\ vid.video.frame_count >= 1
    /\ vid.sample_frames
    /\ ~vid.result.raised
    /\ vid.result.features.metadata.duration = Ratio(0, 1)

\* The frame indices at which the mean absolute luma difference to the
\* previous frame is above the threshold
CutIndices(frames) ==
    {i \in 1..(Len(frames) - 1) :
        SumAbsDiff(frames[i], frames[i + 1]) > 30 * FramePixels}

\* C26: scene-cut detection.  _detect_scenes returns one cut for every
\* frame index i >= 1 whose mean absolute luma difference to frame i - 1 is
\* strictly above 30 and no other cut, in strictly increasing index order;
\* two frames differing by 50 give one cut at index 1 and a uniform
\* sequence gives none.
C26_CutsWhereDifferenceAbove30 ==
    vid.op = "detect_scenes" =>
        LET d == vid.detected
            frames == vid.video.frames
        IN /\ ~d.raised
           /\ {d.scenes[k].frame_index : k \in 1..Len(d.scenes)} = CutIndices(frames)
           /\ \A k \in 1..Len(d.scenes) : d.scenes[k].frame_index >= 1
           /\ \A k \in 1..(Len(d.scenes) - 1) :
                  d.scenes[k].frame_index < d.scenes[k + 1].frame_index
           /\ frames = <<Black, Grey50>> =>
                  Len(d.scenes) = 1 /\ d.scenes[1].frame_index = 1
           /\ (\A i \in 1..Len(frames) : frames[i] = frames[1]) => d.scenes = <<>>

\* At 25 frames a second, a black frame followed by a frame brighter by 50
\* has given one cut, at index 1.
C26_Witness ==
    /\ vid.op = "detect_scenes"
    /\ vid.video.fps = 25
    /\ vid.video.frames = <<Black, Grey50>>
    /\ Len(vid.detected.scenes) = 1
    /\ vid.detected.scenes[1].frame_index = 1
    /\ vid.detected.scenes[1].intensity = Ratio(100, 2)

-----------------------------------------------------------------------------
(* Properties of the worker pool, checked under SpecPool *)

\* A task starts only from the queue and only while fewer than four tasks
\* are running; until then it stays queued.
StartsOnlyOnFreeWorker ==
    \A t \in Tasks :
        (pool[t].state # "running" /\ pool'[t].state = "running") =>
            /\ pool[t].state = "queued"
            /\ Cardinality(Running) < 4

\* At most four extractions are executing, and a further one waits for a
\* free worker
AtMostFourAndTheRestWait ==
    /\ [](Cardinality(Running \cap Extractions) <= 4)
    /\ [][StartsOnlyOnFreeWorker]_vars

-----------------------------------------------------------------------------
(* Failed analyze requests, checked under SpecRace *)

\* The failures of an analyze request that come from the container or the
\* providers
ProviderOrContainerFailures ==
    ExtractionFailures \cup {"No AI provider available"}
        \cup CloudFailures \cup LocalFailures

\* What a request can leave behind: the cache entries, the ledger and its
\* file
Durable == <<cache, ledger, costsFile>>

\* A step of request r that does not answer it, or that answers it with one
\* of these failures, writes nothing.
WritesNothingUnlessAnswered(r) ==
    (req'[r] # req[r]) =>
        /\ req'[r].pc \notin {"done", "failed"} => Durable' = Durable
        /\ (req'[r].pc = "failed"
               /\ req'[r].response.detail \in ProviderOrContainerFailures) =>
               Durable' = Durable

\* C30: a failed analyze request leaves no partial result.  When a request
\* fails because the container cannot be opened, no provider is available,
\* or the provider call fails with no usable fallback, none of its steps
\* has written a cache entry or changed the ledger's total_cost, breakdown,
\* api_calls or cache_hits, in memory or in the file.
C30_FailedLeavesNoPartialResult ==
    [][\A r \in Reqs : WritesNothingUnlessAnswered(r)]_vars

\* After one request was answered and recorded, a second one for other
\* bytes has failed at the provider after its generate call: nothing is
\* cached for it and the ledger holds the first request only.
C30_Witness ==
    \E r, q \in Reqs :
        /\ req[r].pc = "failed"
        /\ req[r].response.detail \in CloudFailures
        /\ Made(r, "generate")
        /\ ~cache[CacheKey(req[r].content)].present
        /\ req[q].pc = "done"
        /\ req[q].content \notin {"none", req[r].content}
        /\ RecordedCost(q) > 0
        /\ ledger.api_calls = 1
        /\ ledger.total_cost = RecordedCost(q)

(* Agreement of the cache and the handler on hits, checked under Spec *)

\* The step is the arrival of a request in slot r whose read of the cache
\* returned a stored value and was counted as a hit by CacheManager.get
CountedHitStep(r) ==
    /\ arrivals' = arrivals + 1
    /\ req'[r].use_cache
    /\ stats'.hits = stats.hits + 1

\* C31: the cache and the handler agree on hits.  Whenever CacheManager.get
\* during an analyze request returns a stored value and counts a hit, the
\* request takes the cache-hit path: it answers with the stored analysis,
\* records a cache hit in the ledger and makes no provider call; this for
\* every value a provider response can be parsed into.
C31_CountedHitIsServedFromCache ==
    [][\A r \in SeqReqs :
          CountedHitStep(r) =>
              /\ req'[r].cached
              /\ ledger'.cache_hits = ledger.cache_hits + 1
              /\ req'[r].calls = <<>>
              /\ ~req'[r].extracted
              /\ req'[r].pc = "done" =>
                     /\ req'[r].response.cached
                     /\ req'[r].response.analysis =
                            cache[CacheKey(req'[r].content)].value]_vars

\* The cache has counted one hit for a stored analysis with fields, and the
\* request that read it was answered from the cache with one ledger hit.
C31_Witness ==
    \E r \in SeqReqs :
        /\ stats.hits = 1
        /\ stats.misses = 1
        /\ req[r].use_cache
        /\ req[r].cached
        /\ req[r].pc = "done"
        /\ Truthy(req[r].response.analysis)
        /\ ledger.cache_hits = 1

(* Consistency of the ledger, checked under SpecTracker *)

\* C32: ledger consistency.  From an empty or reset ledger, after any
\* sequence of record_analysis, record_chat, record_image_generation,
\* record_cache_hit and reset, total_cost equals the sum of the breakdown
\* buckets (added in some order), and api_calls equals the number of record
\* operations since the last reset (those that record an API call; a cache
\* hit is counted in cache_hits).
C32_TotalIsSumOfBuckets ==
    /\ tracker.mem.total_cost \in BucketSums(tracker.mem.breakdown)
    /\ tracker.mem.api_calls = tracker.records

\* Three costs were recorded into two buckets after a reset, and the total
\* is the sum of the two buckets.
C32_Witness ==
    /\ tracker.calls = 3
    /\ tracker.records = 2
    /\ tracker.mem.api_calls = 2
    /\ Cardinality(DOMAIN tracker.mem.breakdown) = 2
    /\ \A k \in DOMAIN tracker.mem.breakdown : tracker.mem.breakdown[k] # Zero
    /\ tracker.mem.total_cost \in BucketSums(tracker.mem.breakdown)

====
